---------------------------- MODULE Spec2Model ----------------------------
(***************************************************************************)
(* Packet-processing core of the STinG port driver for USB network         *)
(* adapters (usbsting.c): the output pipeline (send_dgrams,                *)
(* process_output), the input pipeline (receive_dgrams, process_ip,        *)
(* process_arp), the deferred-send queue (arpwait), the device state       *)
(* switch and the control operations on the statistics and the ARP table,  *)
(* together with the ARP cache the driver consults.                        *)
(*                                                                         *)
(* An IPv4 address is a tuple of four octets (most significant first), a   *)
(* hardware address is a string, a datagram is a heap cell named by its    *)
(* id, and a queue is the sequence of ids met when walking the next links. *)
(* "Transmitted" means handed to write_device: the variable wire lists the *)
(* frames the last operation handed to the transport, each with the        *)
(* transport's answer.                                                     *)
(***************************************************************************)
EXTENDS Integers, Sequences, FiniteSets, TLC

(***************************************************************************)
(* Bounds of the model.                                                    *)
(***************************************************************************)
MaxDgrams == 3      \* datagram structures the host ever allocates
MaxReads  == 2      \* reads the transport ever answers
ArpSlots  == 2      \* slots of the ARP cache

LoopFuel == MaxDgrams + 2   \* iterations granted to a queue-draining loop

(***************************************************************************)
(* Program constants.                                                      *)
(***************************************************************************)
ETH_MIN_LEN     == 60
ETH_MAX_LEN     == 1514
SIZEOF_ENET_HDR == 14
SIZEOF_IP_HDR   == 20
SIZEOF_ARP_PKT  == 42
ETH_ALEN        == 6
ARP_OP_REQ      == "ARP_OP_REQ"
ARP_OP_ANS      == "ARP_OP_ANS"
ARP_HARD_ETHER  == "ARP_HARD_ETHER"
ENET_TYPE_IP    == "ENET_TYPE_IP"
ENET_TYPE_ARP   == "ENET_TYPE_ARP"
E_NORMAL        == "E_NORMAL"
E_TTLEXCEED     == "E_TTLEXCEED"
E_FNAVAIL       == "E_FNAVAIL"
TRACE_ENTRIES   == 0
EXTPORT_MAGIC   == 17242215
CTL_ETHER_GET_STAT     == "CTL_ETHER_GET_STAT"
CTL_ETHER_CLR_STAT     == "CTL_ETHER_CLR_STAT"
CTL_ETHER_CLR_ARPTABLE == "CTL_ETHER_CLR_ARPTABLE"
CTL_ETHER_GET_ARPTABLE == "CTL_ETHER_GET_ARPTABLE"

BROADCAST_ADDR == "ff:ff:ff:ff:ff:ff"
NULL == 0

(***************************************************************************)
(* 32-bit addresses as four octets, with the bitwise operations the code   *)
(* applies to them.                                                        *)
(***************************************************************************)
RECURSIVE AndOctet(_, _)
AndOctet(a, b) ==
    IF a = 0 \/ b = 0 THEN 0
    ELSE (a % 2) * (b % 2) + 2 * AndOctet(a \div 2, b \div 2)

IpAnd(a, b) == [i \in 1..4 |-> AndOctet(a[i], b[i])]
IpNot(a)    == [i \in 1..4 |-> 255 - a[i]]

IP_ZERO == <<0, 0, 0, 0>>
IP_00FF == <<0, 0, 0, 255>>
IP_ONES == <<255, 255, 255, 255>>

(***************************************************************************)
(* 16-bit arithmetic: the driver is built with 16-bit ints (-mshort).      *)
(***************************************************************************)
ToUint16(n) == n % 65536
ToInt16(n)  == IF n % 65536 >= 32768 THEN (n % 65536) - 65536 ELSE n % 65536

(***************************************************************************)
(* Bytes.  A byte string is a sequence of runs, a run being len bytes      *)
(* taken from offset off of a source: the options or the data the host     *)
(* gave a datagram, the bytes a sender put behind the IP header of a       *)
(* frame, zeros, or whatever lies in a buffer behind the bytes written to  *)
(* it ("stale").  memcpy(dst, src + off, n) is Copy(src, off, n).          *)
(***************************************************************************)
Run(src, n) == IF n <= 0 THEN << >> ELSE <<[src |-> src, off |-> 0, len |-> n]>>

RECURSIVE BLen(_)
BLen(b) == IF b = << >> THEN 0 ELSE Head(b).len + BLen(Tail(b))

\* the first n bytes of b; behind the end of b lie stale bytes
RECURSIVE Take(_, _)
Take(b, n) ==
    IF n <= 0 THEN << >>
    ELSE IF b = << >> THEN Run("stale", n)
    ELSE IF Head(b).len <= n THEN <<Head(b)>> \o Take(Tail(b), n - Head(b).len)
    ELSE <<[Head(b) EXCEPT !.len = n]>>

\* b without its first n bytes
RECURSIVE Drop(_, _)
Drop(b, n) ==
    IF n <= 0 \/ b = << >> THEN b
    ELSE IF Head(b).len <= n THEN Drop(Tail(b), n - Head(b).len)
    ELSE <<[Head(b) EXCEPT !.off = @ + n, !.len = @ - n]>> \o Tail(b)

Copy(b, off, n) == Take(Drop(b, off), n)

(***************************************************************************)
(* State.                                                                  *)
(***************************************************************************)
VARIABLES
    x,              \* struct extended_port: port, arpwait, interface_up, macaddr, stats
    arp_table,      \* the ARP cache: slots and the slot the next eviction takes
    arp_enet_pkt,   \* the Ethernet packet sent on ARP request or answer
    heap,           \* the host's IP_DGRAM structures, by id
    wire,           \* frames handed to write_device by the last operation
    calls,          \* the calls of process_output made by the last operation
    dequeues,       \* the calls of dequeue_dgram made by the last operation
    reads,          \* reads the transport has answered so far
    pc,             \* where receive_dgrams stands: loc "idle" or "receive", and its rc
    last            \* the last operation, its argument and its result

vars == <<x, arp_table, arp_enet_pkt, heap, wire, calls, dequeues, reads, pc, last>>

DgramIds == 1..MaxDgrams

HwAddrs  == {"aa:bb:cc:dd:ee:ff", "11:22:33:44:55:66"}
FACTORY_MAC == "00:0e:c6:00:00:01"

(***************************************************************************)
(* USBNET_STATS, all entries zero.                                         *)
(***************************************************************************)
ZeroStats ==
    [ hwaddr  |-> "00:00:00:00:00:00",
      macaddr |-> "00:00:00:00:00:00",
      arp_entries   |-> 0,
      trace_entries |-> 0,
      read    |-> [total_packets |-> 0, failed |-> 0],
      receive |-> [total_packets |-> 0, good_packets |-> 0, bad_packets |-> 0],
      process |-> [broadcast_ip_packets |-> 0, normal_ip_packets |-> 0,
                   arp_packets |-> 0, bad_ip_packets |-> 0, bad_arp_packets |-> 0],
      send    |-> [dequeued |-> 0, bad_length |-> 0, bad_host |-> 0,
                   bad_network |-> 0, ip_packets |-> 0, arp_packets |-> 0,
                   arp_packets_err |-> 0],
      write   |-> [total_packets |-> 0, failed |-> 0],
      arp     |-> [input_errors |-> 0, opcode_errors |-> 0,
                   requests_received |-> 0, answers_received |-> 0,
                   wait_queued |-> 0, wait_dequeued |-> 0, wait_requeued |-> 0] ]

(***************************************************************************)
(* init_ext_port: the extended port after install().                       *)
(***************************************************************************)
init_ext_port ==
    [ magic |-> EXTPORT_MAGIC,
      port |-> [ active        |-> FALSE,
                 ip_addr       |-> IP_ONES,
                 sub_mask      |-> IP_ONES,
                 stat_sd_data  |-> 0,
                 send          |-> << >>,
                 stat_rcv_data |-> 0,
                 receive       |-> << >>,
                 stat_dropped  |-> 0 ],
      arpwait      |-> << >>,
      interface_up |-> FALSE,
      hwaddr       |-> FACTORY_MAC,
      macaddr      |-> FACTORY_MAC,
      stats        |-> ZeroStats ]

(***************************************************************************)
(* The ARP request/answer packet as install() leaves it: the fixed fields  *)
(* set, the variable fields zero.                                          *)
(***************************************************************************)
init_arp_enet_pkt ==
    [ eh  |-> [destination |-> "00:00:00:00:00:00", source |-> "00:00:00:00:00:00",
               type |-> ENET_TYPE_ARP],
      arp |-> [hardware_space |-> ARP_HARD_ETHER, protocol_space |-> ENET_TYPE_IP,
               hardware_len |-> ETH_ALEN, protocol_len |-> 4,
               op_code |-> "none",
               src_ether |-> "00:00:00:00:00:00", src_ip |-> IP_ZERO,
               dest_ether |-> "00:00:00:00:00:00", dest_ip |-> IP_ZERO] ]

(***************************************************************************)
(* The ARP cache (arpcache.c).  A slot whose ip is zero is empty.          *)
(***************************************************************************)
EmptySlot == [ip |-> IP_ZERO, ether |-> "00:00:00:00:00:00"]

arp_init == [slots |-> [i \in 1..ArpSlots |-> EmptySlot], next |-> 1]

\* lookup: the slot holding ip, or NULL
arp_cache(table, ip) ==
    LET hits == {i \in 1..ArpSlots : table.slots[i].ip = ip /\ table.slots[i].ip # IP_ZERO}
    IN  IF hits = {} THEN NULL ELSE CHOOSE i \in hits : \A j \in hits : i <= j

\* insert: the first empty slot, or else the slot whose turn it is (wrap-around)
arp_enter(table, ip, ether) ==
    LET free == {i \in 1..ArpSlots : table.slots[i].ip = IP_ZERO}
        slot == IF free # {} THEN CHOOSE i \in free : \A j \in free : i <= j
                ELSE table.next
    IN  [ slots |-> [table.slots EXCEPT ![slot] = [ip |-> ip, ether |-> ether]],
          next  |-> IF free # {} THEN table.next ELSE (table.next % ArpSlots) + 1 ]

\* snapshot: the occupied slots, in slot order, as copied to the caller's buffer
RECURSIVE arp_table_from(_, _)
arp_table_from(table, i) ==
    IF i > ArpSlots THEN << >>
    ELSE IF table.slots[i].ip # IP_ZERO
    THEN <<[ip_addr |-> table.slots[i].ip, ether |-> table.slots[i].ether]>>
           \o arp_table_from(table, i + 1)
    ELSE arp_table_from(table, i + 1)

arp_table_copy(table) == arp_table_from(table, 1)

\* count: the occupied slots
arp_count(table) == Cardinality({i \in 1..ArpSlots : table.slots[i].ip # IP_ZERO})


(***************************************************************************)
(* The host's datagram structures.  A cell is taken over by the driver     *)
(* when the host queues it for sending or process_ip allocates it; frees   *)
(* counts the times it has been handed back to the host's allocator.       *)
(***************************************************************************)
\* a pointer to a buffer of the host's allocator: NULL, or the bytes it holds and
\* the times it has been given back
NoBuffer  == [null |-> TRUE, bytes |-> << >>, frees |-> 0]
Buffer(b) == [null |-> FALSE, bytes |-> b, frees |-> 0]

FreeCell ==
    [ alloc |-> FALSE, frees |-> 0, expired |-> FALSE,
      hdr |-> [ip_dest |-> IP_ZERO, length |-> 0, hd_len |-> 0],
      ip_gateway |-> IP_ZERO, opt_length |-> 0, pkt_length |-> 0,
      options |-> NoBuffer, pkt_data |-> NoBuffer ]

NewCell(ip_dest, ip_gateway, opt_length, pkt_length) ==
    [ alloc |-> TRUE, frees |-> 0, expired |-> FALSE,
      hdr |-> [ip_dest |-> ip_dest,
               length  |-> ToUint16(SIZEOF_IP_HDR + opt_length + pkt_length),
               hd_len  |-> (SIZEOF_IP_HDR + opt_length) \div 4],
      ip_gateway |-> ip_gateway, opt_length |-> opt_length, pkt_length |-> pkt_length,
      options  |-> Buffer(Run("options", opt_length)),
      pkt_data |-> Buffer(Run("pkt_data", pkt_length)) ]

\* a variant that gives back the structure and leaves its buffers
IP_discard_struct(h, dgram) == [h EXCEPT ![dgram].frees = @ + 1]

\* IP_discard(dgram,TRUE): the structure goes back to the host, and with it the
\* options and data buffers it points to
IP_discard(h, dgram) ==
    [h EXCEPT ![dgram].frees = @ + 1,
              ![dgram].options.frees  = IF h[dgram].options.null  THEN @ ELSE @ + 1,
              ![dgram].pkt_data.frees = IF h[dgram].pkt_data.null THEN @ ELSE @ + 1]

\* check_dgram_ttl: the host discards a datagram whose time to live has passed
check_dgram_ttl(h, dgram) ==
    IF h[dgram].expired
    THEN [rc |-> E_TTLEXCEED, heap |-> IP_discard(h, dgram)]
    ELSE [rc |-> E_NORMAL, heap |-> h]

(***************************************************************************)
(* dequeue_dgram: dequeue & return first unexpired dgram from queue        *)
(* (leading expired dgrams are dropped).                                   *)
(***************************************************************************)
RECURSIVE dequeue_dgram(_, _)

\* a variant that gives up at the first expired dgram instead of trying again
dequeue_dgram_once(h, queue) ==
    IF queue = << >>
    THEN [dgram |-> NULL, queue |-> << >>, heap |-> h]
    ELSE IF check_dgram_ttl(h, Head(queue)).rc # E_NORMAL
    THEN [dgram |-> NULL, queue |-> Tail(queue), heap |-> check_dgram_ttl(h, Head(queue)).heap]
    ELSE [dgram |-> Head(queue), queue |-> Tail(queue), heap |-> h]

dequeue_dgram(h, queue) ==
    IF queue = << >>
    THEN [dgram |-> NULL, queue |-> << >>, heap |-> h]
    ELSE LET dgram == Head(queue)
             ttl   == check_dgram_ttl(h, dgram)
         IN  IF ttl.rc # E_NORMAL
             THEN dequeue_dgram(ttl.heap, Tail(queue))
             ELSE [dgram |-> dgram, queue |-> Tail(queue), heap |-> ttl.heap]

\* a variant that links dgram at the head of the queue
queue_dgram_head(queue, dgram) == <<dgram>> \o queue

\* queue_dgram: walk to the end of the queue and link dgram there
queue_dgram(queue, dgram) == Append(queue, dgram)

\* a variant that discards the first dgram only
empty_queue_first(h, queue) ==
    IF queue = << >> THEN h ELSE IP_discard(h, Head(queue))

\* empty_queue: discard every dgram of the queue
RECURSIVE empty_queue(_, _)
empty_queue(h, queue) ==
    IF queue = << >> THEN h
    ELSE empty_queue(IP_discard(h, Head(queue)), Tail(queue))

(***************************************************************************)
(* The context an operation works in: the driver's state, plus wr, the     *)
(* answers the transport will give to the writes to come, timed_out, the   *)
(* datagrams whose time to live has run out when the operation starts, and *)
(* stuck, set when a loop used up LoopFuel iterations.                     *)
(***************************************************************************)
Context(wr, timed_out) ==
    [ x |-> x, arp_table |-> arp_table, arp_enet_pkt |-> arp_enet_pkt,
      heap |-> [i \in DgramIds |->
                  IF i \in timed_out THEN [heap[i] EXCEPT !.expired = TRUE] ELSE heap[i]],
      wire |-> << >>, calls |-> << >>, dequeues |-> << >>, wr |-> wr, stuck |-> FALSE ]

\* the datagrams of a queue whose time to live may have run out by now
Range(queue) == {queue[i] : i \in 1..Len(queue)}
TimedOut(queue) == SUBSET Range(queue)

\* the answers to at most n writes
WriteAnswers(n) == [1..n -> BOOLEAN]

\* the answers to the KRmalloc calls made for a frame
MallocAnswers(ip) ==
    IF ip.eh.type = ENET_TYPE_IP /\ ip.eh.destination # BROADCAST_ADDR
    THEN [1..3 -> BOOLEAN]
    ELSE {<<TRUE, TRUE, TRUE>>}

(***************************************************************************)
(* write_device: hand a frame to the transport; 0 ok, -1 error.            *)
(***************************************************************************)
write_device(c, buffer) ==
    LET ok == c.wr = << >> \/ Head(c.wr)    \* writes beyond the answers given succeed
        c1 == [c EXCEPT !.x.stats.write.total_packets = @ + 1,
                        !.wire = Append(@, [frame |-> buffer, ok |-> ok, result |-> << >>]),
                        !.wr = IF @ = << >> THEN @ ELSE Tail(@)]
    IN  IF ~ok
        THEN [c |-> [c1 EXCEPT !.x.stats.write.failed = @ + 1], rc |-> -1]
        ELSE [c |-> c1, rc |-> 0]

(***************************************************************************)
(* send_arp: complete the ARP packet with our addresses and write it.      *)
(***************************************************************************)
\* a variant that sets the hardware addresses and leaves the IP address
arp_source_ether(c) ==
    [c EXCEPT !.arp_enet_pkt.eh.source = c.x.macaddr,
              !.arp_enet_pkt.arp.src_ether = c.x.macaddr]

\* set source address info into ARP outgoing packets
arp_source(c) ==
    [c EXCEPT !.arp_enet_pkt.eh.source = c.x.macaddr,
              !.arp_enet_pkt.arp.src_ether = c.x.macaddr,
              !.arp_enet_pkt.arp.src_ip = c.x.port.ip_addr]

\* the ARP packet as a frame of sizeof(arp_enet_pkt) bytes
arp_frame(pkt) == [eh |-> pkt.eh, arp |-> pkt.arp, length |-> SIZEOF_ARP_PKT]

\* the function that handed the last frame to the transport returns rc: the
\* result is noted with the frame
Returned(c, rc) == [c EXCEPT !.wire[Len(c.wire)].result = <<rc>>]

\* a variant that does the counting and returns 0 whatever the write answered
send_arp_count_ok(w) ==
    IF w.rc = 0
    THEN [c |-> Returned([w.c EXCEPT !.x.stats.send.arp_packets = @ + 1,
                                     !.x.port.stat_sd_data = @ + SIZEOF_ARP_PKT], 0),
          rc |-> 0]
    ELSE [c |-> Returned([w.c EXCEPT !.x.stats.send.arp_packets = @ + 1,
                                     !.x.stats.send.arp_packets_err = @ + 1], 0),
          rc |-> 0]

\* the counting after the write; its result is the result of send_arp
send_arp_count(w) ==
    IF w.rc = 0
    THEN [c |-> Returned([w.c EXCEPT !.x.stats.send.arp_packets = @ + 1,
                                     !.x.port.stat_sd_data = @ + SIZEOF_ARP_PKT], w.rc),
          rc |-> w.rc]
    ELSE [c |-> Returned([w.c EXCEPT !.x.stats.send.arp_packets = @ + 1,
                                     !.x.stats.send.arp_packets_err = @ + 1], w.rc),
          rc |-> w.rc]

send_arp(c) ==
    send_arp_count(write_device(arp_source(c), arp_frame(arp_source(c).arp_enet_pkt)))

(***************************************************************************)
(* process_output: process one output IP packet.                           *)
(*   returns >0 if packet ok, sent (value is length of packet)             *)
(*            0 if packet ok, not sent                                     *)
(*        or -1 if error                                                   *)
(***************************************************************************)
\* the frame length as the code computes it: a 16-bit sum, kept in an int16
enet_length_of(d) ==
    ToInt16(ToUint16(SIZEOF_ENET_HDR + SIZEOF_IP_HDR + d.opt_length + d.pkt_length))

\* no ip packets to "host 0 or ff"
host_0_or_ff(port, ip_dest) ==
    \/ IpAnd(ip_dest, IpNot(port.sub_mask)) = IP_ZERO
    \/ IpAnd(ip_dest, IpNot(port.sub_mask)) = IP_00FF

\* whether an address lies in the network of the port
on_network(port, a) == IpAnd(a, port.sub_mask) = IpAnd(port.ip_addr, port.sub_mask)

\* a variant that resolves the destination wherever it lies
next_hop_direct(port, d) == d.hdr.ip_dest

\* the address to resolve: the destination, or else the gateway
next_hop(port, d) ==
    IF on_network(port, d.hdr.ip_dest) THEN d.hdr.ip_dest ELSE d.ip_gateway

\* a variant that leaves the Ethernet destination of the packet as it was
arp_query_stale(c, ip_address) ==
    [c EXCEPT !.arp_enet_pkt.arp.op_code = ARP_OP_REQ,
              !.arp_enet_pkt.arp.dest_ether = BROADCAST_ADDR,
              !.arp_enet_pkt.arp.dest_ip = ip_address]

\* the ARP query for an address that is not in the cache
arp_query(c, ip_address) ==
    [c EXCEPT !.arp_enet_pkt.eh.destination = BROADCAST_ADDR,
              !.arp_enet_pkt.arp.op_code = ARP_OP_REQ,
              !.arp_enet_pkt.arp.dest_ether = BROADCAST_ADDR,
              !.arp_enet_pkt.arp.dest_ip = ip_address]

\* a variant that copies the data in front of the options
output_data_swapped(d, padding) ==
    Copy(d.pkt_data.bytes, 0, d.pkt_length)
      \o Copy(d.options.bytes, 0, d.opt_length)
      \o Run("zero", padding)

\* what the copies leave in op.ed behind the IP header: the options, the data
\* and the padding
output_data(d, padding) ==
    Copy(d.options.bytes, 0, d.opt_length)
      \o Copy(d.pkt_data.bytes, 0, d.pkt_length)
      \o Run("zero", padding)

\* the output packet op: headers, options and data copied one after the other,
\* padded with zeros up to ETH_MIN_LEN; of op.ed the frame carries the IP header
\* (ip) and the bytes behind it (ed) up to the length written
OutputFrame(c, dgram, cachedEther) ==
    LET d == c.heap[dgram]
    IN  [ eh |-> [destination |-> c.arp_table.slots[cachedEther].ether,
                  source |-> c.x.macaddr, type |-> ENET_TYPE_IP],
          dgram |-> dgram, ip |-> d.hdr,
          ed |-> Take(output_data(d, IF enet_length_of(d) < ETH_MIN_LEN
                                     THEN ETH_MIN_LEN - enet_length_of(d) ELSE 0),
                      (IF enet_length_of(d) < ETH_MIN_LEN
                       THEN ETH_MIN_LEN ELSE enet_length_of(d))
                         - SIZEOF_ENET_HDR - SIZEOF_IP_HDR),
          opt_length |-> d.opt_length, pkt_length |-> d.pkt_length,
          padding |-> IF enet_length_of(d) < ETH_MIN_LEN
                      THEN ETH_MIN_LEN - enet_length_of(d) ELSE 0,
          length |-> IF enet_length_of(d) < ETH_MIN_LEN
                     THEN ETH_MIN_LEN ELSE enet_length_of(d),
          \* the copies ran past the end of the output packet
          overrun |-> SIZEOF_ENET_HDR + SIZEOF_IP_HDR + d.opt_length + d.pkt_length
                        > ETH_MAX_LEN ]

\* after the write of the output packet
output_written(w, d) ==
    IF w.rc # 0
    THEN [c |-> Returned(w.c, -1), rc |-> -1]
    ELSE [c |-> Returned([w.c EXCEPT !.x.stats.send.ip_packets = @ + 1],
                         ToInt16(SIZEOF_IP_HDR + d.opt_length + d.pkt_length)),
          rc |-> ToInt16(SIZEOF_IP_HDR + d.opt_length + d.pkt_length)]

process_output_body(c, dgram) ==
    LET d           == c.heap[dgram]
        ip_address  == next_hop(c.x.port, d)
        cachedEther == arp_cache(c.arp_table, ip_address)
    IN  IF enet_length_of(d) > ETH_MAX_LEN
        THEN [c |-> [c EXCEPT !.x.stats.send.bad_length = @ + 1], rc |-> -1]
        ELSE IF host_0_or_ff(c.x.port, d.hdr.ip_dest)
        THEN [c |-> [c EXCEPT !.x.stats.send.bad_host = @ + 1], rc |-> -1]
        ELSE IF ~on_network(c.x.port, d.hdr.ip_dest) /\ ~on_network(c.x.port, d.ip_gateway)
        THEN [c |-> [c EXCEPT !.x.stats.send.bad_network = @ + 1], rc |-> -1]
        ELSE IF cachedEther = NULL
        THEN [c |-> send_arp(arp_query(c, ip_address)).c, rc |-> 0]
        ELSE output_written(write_device(c, OutputFrame(c, dgram, cachedEther)), d)

\* the call entered in the log: the datagram, the result, the frames handed to
\* the transport, the send counters that moved, and the datagram's structure
\* before and after the call
SendCounters ==
    {"bad_length", "bad_host", "bad_network", "ip_packets", "arp_packets", "arp_packets_err"}

Called(c, dgram, r) ==
    [c |-> [r.c EXCEPT !.calls = Append(@,
               [ dgram   |-> dgram,
                 rc      |-> r.rc,
                 frames  |-> SubSeq(r.c.wire, Len(c.wire) + 1, Len(r.c.wire)),
                 counted |-> {k \in SendCounters :
                                r.c.x.stats.send[k] # c.x.stats.send[k]},
                 before  |-> c.heap[dgram],
                 after   |-> r.c.heap[dgram] ])],
     rc |-> r.rc]

process_output(c, dgram) == Called(c, dgram, process_output_body(c, dgram))

(***************************************************************************)
(* send_dgrams: sends all pending dgrams.                                  *)
(***************************************************************************)
\* a call of dequeue_dgram, entered in the log
Dequeued(c, queue, dq) ==
    [c EXCEPT !.heap = dq.heap,
              !.dequeues = Append(@, [queue |-> queue, dgram |-> dq.dgram, rest |-> dq.queue])]

\* a variant whose case -1 counts the dgram as dropped without discarding it
send_switch_keep(c, dgram, length) ==
    CASE length = 0 ->
           [c EXCEPT !.x.arpwait = queue_dgram(@, dgram),
                     !.x.stats.arp.wait_queued = @ + 1]
      [] length = -1 ->
           [c EXCEPT !.x.port.stat_dropped = @ + 1]
      [] OTHER ->
           [c EXCEPT !.heap = IP_discard(@, dgram),
                     !.x.port.stat_sd_data = @ + length]

\* the switch on the result of process_output
send_switch(c, dgram, length) ==
    CASE length = 0 ->
           [c EXCEPT !.x.arpwait = queue_dgram(@, dgram),
                     !.x.stats.arp.wait_queued = @ + 1]
      [] length = -1 ->
           [c EXCEPT !.heap = IP_discard(@, dgram),
                     !.x.port.stat_dropped = @ + 1]
      [] OTHER ->
           [c EXCEPT !.heap = IP_discard(@, dgram),
                     !.x.port.stat_sd_data = @ + length]

send_output(dgram, r) == send_switch(r.c, dgram, r.rc)

RECURSIVE send_loop(_)
RECURSIVE send_turn(_, _)

\* one turn of the loop, for the result dq of dequeue_dgram
send_turn(c, dq) ==
    IF dq.dgram = NULL
    THEN [Dequeued(c, c.x.port.send, dq) EXCEPT !.x.port.send = dq.queue]
    ELSE send_loop(send_output(dq.dgram,
             process_output([Dequeued(c, c.x.port.send, dq) EXCEPT
                                !.x.port.send = dq.queue,
                                !.x.stats.send.dequeued = @ + 1],
                            dq.dgram)))

send_loop(c) == send_turn(c, dequeue_dgram(c.heap, c.x.port.send))

send_dgrams_body(c) ==
    IF ~c.x.port.active THEN c
    ELSE IF c.x.port.send = << >> THEN c
    ELSE send_loop(c)

(***************************************************************************)
(* process_ip: process one input IP packet; 0 if accepted, -1 if error.    *)
(* km holds the answers of the three KRmalloc calls (structure, options,   *)
(* data); the structure is also refused when the host has none left.       *)
(***************************************************************************)
FreeIds(h) == {i \in DgramIds : ~h[i].alloc}

\* the structure process_ip fills in: the header copied, the lengths taken from
\* it, and the two buffers as KRmalloc answered
ip_cell(ip_hdr, km) ==
    [ alloc |-> TRUE, frees |-> 0, expired |-> FALSE,
      hdr |-> ip_hdr,
      ip_gateway |-> IP_ZERO,
      opt_length |-> ToInt16(ip_hdr.hd_len * 4 - SIZEOF_IP_HDR),
      pkt_length |-> ToInt16(ip_hdr.length - ip_hdr.hd_len * 4),
      options  |-> IF km[2] THEN Buffer(<< >>) ELSE NoBuffer,
      pkt_data |-> IF km[3] THEN Buffer(<< >>) ELSE NoBuffer ]

\* the copies out of the input packet, p pointing behind its IP header
ip_copied(cell, p) ==
    [cell EXCEPT !.options.bytes  = Copy(p, 0, cell.opt_length),
                 !.pkt_data.bytes = Copy(p, cell.opt_length, cell.pkt_length)]

process_ip(c, ip_hdr, p, length, km) ==
    IF length < ETH_MIN_LEN \/ length > ETH_MAX_LEN
    THEN [c |-> c, rc |-> -1]
    ELSE IF ip_hdr.length > length
    THEN [c |-> c, rc |-> -1]
    ELSE IF ip_hdr.hd_len * 4 < SIZEOF_IP_HDR \/ ip_hdr.hd_len * 4 > ip_hdr.length
    THEN [c |-> c, rc |-> -1]
    ELSE IF ~km[1] \/ FreeIds(c.heap) = {}
    THEN [c |-> c, rc |-> -1]
    ELSE LET dgram == CHOOSE i \in FreeIds(c.heap) : \A j \in FreeIds(c.heap) : i <= j
             h1    == [c.heap EXCEPT ![dgram] = ip_cell(ip_hdr, km)]
         IN  IF h1[dgram].options.null \/ h1[dgram].pkt_data.null
             THEN [c |-> [c EXCEPT !.heap = IP_discard(h1, dgram)], rc |-> -1]
             ELSE [c |-> [c EXCEPT !.heap = [h1 EXCEPT ![dgram] = ip_copied(@, p)],
                                   !.x.port.receive = Append(@, dgram)],
                   rc |-> 0]

(***************************************************************************)
(* process_arp: process one input ARP packet; 0 if accepted, -1 if error.  *)
(***************************************************************************)
\* a variant that enters the sender without looking it up
arp_update_enter(table, arp) == arp_enter(table, arp.src_ip, arp.src_ether)

\* the cache update: enter the sender, or overwrite the address already cached
arp_update(table, arp) ==
    LET cachedEther == arp_cache(table, arp.src_ip)
    IN  IF cachedEther = NULL
        THEN arp_enter(table, arp.src_ip, arp.src_ether)
        ELSE [table EXCEPT !.slots[cachedEther].ether = arp.src_ether]

\* a variant that leaves the Ethernet destination of the packet as it was
arp_reply_stale(c, arp) ==
    [c EXCEPT !.x.stats.arp.requests_received = @ + 1,
              !.arp_enet_pkt.arp.op_code = ARP_OP_ANS,
              !.arp_enet_pkt.arp.dest_ether = arp.src_ether,
              !.arp_enet_pkt.arp.dest_ip = arp.src_ip]

\* if this was a request to us, we'd better answer
arp_reply(c, arp) ==
    [c EXCEPT !.x.stats.arp.requests_received = @ + 1,
              !.arp_enet_pkt.eh.destination = arp.src_ether,
              !.arp_enet_pkt.arp.op_code = ARP_OP_ANS,
              !.arp_enet_pkt.arp.dest_ether = arp.src_ether,
              !.arp_enet_pkt.arp.dest_ip = arp.src_ip]

\* a variant that does not look at the address the packet is for
arp_answer_all(c, arp) ==
    IF arp.op_code = ARP_OP_REQ
    THEN send_arp(arp_reply(c, arp)).c
    ELSE [c EXCEPT !.x.stats.arp.answers_received = @ + 1]

\* the answer to a request for our address; an answer to us is only counted
arp_answer(c, arp) ==
    IF arp.dest_ip = c.x.port.ip_addr
    THEN IF arp.op_code = ARP_OP_REQ
         THEN send_arp(arp_reply(c, arp)).c
         ELSE [c EXCEPT !.x.stats.arp.answers_received = @ + 1]
    ELSE c

\* a variant whose case 0 requeues the dgram on arpwait itself
arp_switch_live(c, arptemp, dgram, length) ==
    CASE length = 0 ->
           [c |-> [c EXCEPT !.x.stats.arp.wait_requeued = @ + 1,
                            !.x.arpwait = queue_dgram(@, dgram)],
            arptemp |-> arptemp]
      [] length = -1 ->
           [c |-> [c EXCEPT !.heap = IP_discard(@, dgram),
                            !.x.port.stat_dropped = @ + 1],
            arptemp |-> arptemp]
      [] OTHER ->
           [c |-> [c EXCEPT !.heap = IP_discard(@, dgram),
                            !.x.port.stat_sd_data = @ + length],
            arptemp |-> arptemp]

\* the switch on the result of process_output; case 0 requeues the dgram off
\* the temporary queue header
arp_switch(c, arptemp, dgram, length) ==
    CASE length = 0 ->
           [c |-> [c EXCEPT !.x.stats.arp.wait_requeued = @ + 1],
            arptemp |-> queue_dgram(arptemp, dgram)]
      [] length = -1 ->
           [c |-> [c EXCEPT !.heap = IP_discard(@, dgram),
                            !.x.port.stat_dropped = @ + 1],
            arptemp |-> arptemp]
      [] OTHER ->
           [c |-> [c EXCEPT !.heap = IP_discard(@, dgram),
                            !.x.port.stat_sd_data = @ + length],
            arptemp |-> arptemp]

arp_output(arptemp, dgram, r) == arp_switch(r.c, arptemp, dgram, r.rc)

RECURSIVE arp_loop(_, _, _)
RECURSIVE arp_turn(_, _, _, _)
RECURSIVE arp_again(_, _)

arp_again(s, fuel) == arp_loop(s.c, s.arptemp, fuel)

\* one turn of the loop over the dgrams waiting for address resolution, for the
\* result dq of dequeue_dgram
arp_turn(c, arptemp, fuel, dq) ==
    IF dq.dgram = NULL
    THEN [c |-> [Dequeued(c, c.x.arpwait, dq) EXCEPT !.x.arpwait = dq.queue],
          arptemp |-> arptemp]
    ELSE IF fuel = 0
    THEN [c |-> [c EXCEPT !.stuck = TRUE], arptemp |-> arptemp]
    ELSE arp_again(arp_output(arptemp, dq.dgram,
                      process_output([Dequeued(c, c.x.arpwait, dq) EXCEPT
                                         !.x.arpwait = dq.queue,
                                         !.x.stats.arp.wait_dequeued = @ + 1],
                                     dq.dgram)),
                   fuel - 1)

arp_loop(c, arptemp, fuel) ==
    arp_turn(c, arptemp, fuel, dequeue_dgram(c.heap, c.x.arpwait))

\* a variant that returns -1 when a write failed on the way
arp_fixup_failed(l) ==
    [c |-> IF l.c.stuck THEN l.c ELSE [l.c EXCEPT !.x.arpwait = l.arptemp],
     rc |-> IF \E i \in 1..Len(l.c.wire) : ~l.c.wire[i].ok THEN -1 ELSE 0]

\* the arpwait queue is empty, but there may be entries in the arptemp queue
arp_fixup(l) ==
    [c |-> IF l.c.stuck THEN l.c ELSE [l.c EXCEPT !.x.arpwait = l.arptemp], rc |-> 0]

\* a variant that enters the sender of a funny packet into the cache before
\* ignoring the packet
process_arp_eager(c, arp) ==
    IF \/ arp.hardware_space # ARP_HARD_ETHER
       \/ arp.hardware_len # ETH_ALEN
       \/ arp.protocol_space # ENET_TYPE_IP
       \/ arp.protocol_len # 4
    THEN [c |-> [c EXCEPT !.x.stats.arp.input_errors = @ + 1,
                          !.arp_table = arp_update(@, arp)],
          rc |-> -1]
    ELSE IF arp.op_code # ARP_OP_REQ /\ arp.op_code # ARP_OP_ANS
    THEN [c |-> [c EXCEPT !.x.stats.arp.opcode_errors = @ + 1], rc |-> -1]
    ELSE arp_fixup(arp_loop(arp_answer([c EXCEPT !.arp_table = arp_update(@, arp)], arp),
                            << >>, LoopFuel))

process_arp(c, arp) ==
    IF \/ arp.hardware_space # ARP_HARD_ETHER
       \/ arp.hardware_len # ETH_ALEN
       \/ arp.protocol_space # ENET_TYPE_IP
       \/ arp.protocol_len # 4
    THEN [c |-> [c EXCEPT !.x.stats.arp.input_errors = @ + 1], rc |-> -1]
    ELSE IF arp.op_code # ARP_OP_REQ /\ arp.op_code # ARP_OP_ANS
    THEN [c |-> [c EXCEPT !.x.stats.arp.opcode_errors = @ + 1], rc |-> -1]
    ELSE arp_fixup(arp_loop(arp_answer([c EXCEPT !.arp_table = arp_update(@, arp)], arp),
                            << >>, LoopFuel))

(***************************************************************************)
(* The inputs: interface configurations, datagrams the host queues for     *)
(* sending, and frames the transport delivers.                             *)
(***************************************************************************)
CFG_C == [ip_addr |-> <<192, 168, 1, 10>>, sub_mask |-> <<255, 255, 255, 0>>]
CFG_B == [ip_addr |-> <<10, 1, 0, 1>>,     sub_mask |-> <<255, 255, 0, 0>>]

HOST_50 == <<192, 168, 1, 50>>      \* a host of 192.168.1.0/24
HOST_51 == <<192, 168, 1, 51>>      \* another one
GATEWAY == <<192, 168, 1, 1>>       \* the gateway of 192.168.1.0/24
REMOTE  == <<8, 8, 8, 8>>           \* a host of neither network

Dgram(ip_dest, ip_gateway, opt_length, pkt_length) ==
    [ip_dest |-> ip_dest, ip_gateway |-> ip_gateway,
     opt_length |-> opt_length, pkt_length |-> pkt_length]

ArpFrame(op_code, src_ether, src_ip, dest_ip) ==
    [ eh  |-> [destination |-> BROADCAST_ADDR, source |-> src_ether,
               type |-> ENET_TYPE_ARP],
      arp |-> [hardware_space |-> ARP_HARD_ETHER, protocol_space |-> ENET_TYPE_IP,
               hardware_len |-> ETH_ALEN, protocol_len |-> 4,
               op_code |-> op_code, src_ether |-> src_ether, src_ip |-> src_ip,
               dest_ether |-> "00:00:00:00:00:00", dest_ip |-> dest_ip],
      length |-> ETH_MIN_LEN ]

IpFrame(destination, length, ip_length, hd_len) ==
    [ eh  |-> [destination |-> destination, source |-> "aa:bb:cc:dd:ee:ff",
               type |-> ENET_TYPE_IP],
      ip  |-> [ip_dest |-> CFG_C.ip_addr, length |-> ip_length, hd_len |-> hd_len],
      ed  |-> Run("payload", length - SIZEOF_ENET_HDR - SIZEOF_IP_HDR),
      length |-> length ]

OtherFrame ==
    [ eh |-> [destination |-> BROADCAST_ADDR, source |-> "aa:bb:cc:dd:ee:ff",
              type |-> "ENET_TYPE_OTHER"],
      length |-> ETH_MIN_LEN ]

(***************************************************************************)
(* Init: the driver as install() leaves it.                                *)
(***************************************************************************)
Init ==
    /\ x = init_ext_port
    /\ arp_table = arp_init
    /\ arp_enet_pkt = init_arp_enet_pkt
    /\ heap = [i \in DgramIds |-> FreeCell]
    /\ wire = << >>
    /\ calls = << >>
    /\ dequeues = << >>
    /\ reads = 0
    /\ pc = [loc |-> "idle", rc |-> 0, frames |-> 0, read0 |-> 0]
    /\ last = [op |-> "install", rc |-> 0]

\* what an operation leaves behind
Commit(c) ==
    /\ x' = c.x
    /\ arp_table' = c.arp_table
    /\ arp_enet_pkt' = c.arp_enet_pkt
    /\ heap' = c.heap
    /\ wire' = c.wire
    /\ calls' = c.calls
    /\ dequeues' = c.dequeues

\* a step of the host: the driver's own state stays, the logs start anew
HostStep ==
    /\ pc.loc = "idle"
    /\ wire' = << >>
    /\ calls' = << >>
    /\ dequeues' = << >>
    /\ UNCHANGED <<arp_table, arp_enet_pkt, reads, pc>>

(***************************************************************************)
(* The host configures the port (IP address, subnet mask) before use.      *)
(***************************************************************************)
host_configure(cfg) ==
    /\ HostStep
    /\ ~x.port.active
    /\ x.port.ip_addr = IP_ONES
    /\ x' = [x EXCEPT !.port.ip_addr = cfg.ip_addr, !.port.sub_mask = cfg.sub_mask]
    /\ last' = [op |-> "host_configure", rc |-> 0]
    /\ UNCHANGED heap

(***************************************************************************)
(* The host queues a datagram for sending on the active port.              *)
(***************************************************************************)
host_send(d, structures) ==
    /\ HostStep
    /\ x.port.active
    /\ Cardinality(DgramIds \ FreeIds(heap)) < structures
    /\ LET dgram == CHOOSE i \in FreeIds(heap) : \A j \in FreeIds(heap) : i <= j
       IN  /\ heap' = [heap EXCEPT ![dgram] =
                          NewCell(d.ip_dest, d.ip_gateway, d.opt_length, d.pkt_length)]
           /\ x' = [x EXCEPT !.port.send = Append(@, dgram)]
           /\ last' = [op |-> "host_send", rc |-> dgram]

(***************************************************************************)
(* set_device_state.  The host marks the port active or inactive according *)
(* to the state it asked for when the driver answers TRUE.                 *)
(***************************************************************************)
set_device_state_body(c, state) ==
    IF state # 0
    THEN [c |-> [c EXCEPT !.x.interface_up = TRUE], rc |-> TRUE]
    ELSE [c |-> [c EXCEPT !.x.interface_up = FALSE,
                          !.heap = empty_queue(empty_queue(@, c.x.port.send),
                                               c.x.port.receive),
                          !.x.port.send = << >>,
                          !.x.port.receive = << >>],
          rc |-> TRUE]

set_device_state_done(r, state) ==
    /\ Commit([r.c EXCEPT !.x.port.active = IF r.rc THEN state # 0 ELSE @])
    /\ last' = [op |-> "set_device_state", rc |-> r.rc, state |-> state,
                send |-> x.port.send, receive |-> x.port.receive,
                arpwait |-> x.arpwait]

set_device_state(state) ==
    /\ pc.loc = "idle"
    /\ x.port.active # (state # 0)
    /\ set_device_state_done(set_device_state_body(Context(<< >>, {}), state), state)
    /\ UNCHANGED <<reads, pc>>

(***************************************************************************)
(* send_dgrams, called by the host for the port.                           *)
(***************************************************************************)
send_dgrams_done(c, timed_out) ==
    /\ Commit(c)
    /\ last' = [op |-> "send_dgrams", rc |-> 0, stuck |-> c.stuck,
                magic |-> x.magic, send |-> x.port.send, timed_out |-> timed_out,
                expired |-> {g \in Range(x.port.send) : heap[g].expired},
                arpwait |-> x.arpwait, dequeued |-> x.stats.send.dequeued]

send_dgrams ==
    /\ pc.loc = "idle"
    /\ \E wr \in WriteAnswers(Len(x.port.send)), timed_out \in TimedOut(x.port.send) :
          send_dgrams_done(send_dgrams_body(Context(wr, timed_out)), timed_out)
    /\ UNCHANGED <<reads, pc>>

(***************************************************************************)
(* The stack hands every port of the machine to send_dgrams and            *)
(* receive_dgrams in turn, the ports of other drivers among them: `magic'  *)
(* is the value the call finds at x->magic of the port it was handed, the  *)
(* driver's own for its own port, another for a port of another driver.    *)
(***************************************************************************)
Magics == {EXTPORT_MAGIC, 0}

\* a variant that serves whatever port it is handed
send_dgrams_any(c, magic) == send_dgrams_body(c)

send_dgrams_for(c, magic) ==
    IF magic # EXTPORT_MAGIC THEN c ELSE send_dgrams_body(c)

\* send_dgrams for a port of another driver
send_dgrams_port(magic) ==
    /\ pc.loc = "idle"
    /\ magic # EXTPORT_MAGIC
    /\ \E wr \in WriteAnswers(Len(x.port.send)) :
          Commit(send_dgrams_for(Context(wr, {}), magic))
    /\ last' = [op |-> "send_dgrams", rc |-> 0, stuck |-> FALSE,
                magic |-> magic, send |-> x.port.send, timed_out |-> {},
                expired |-> {g \in Range(x.port.send) : heap[g].expired},
                arpwait |-> x.arpwait, dequeued |-> x.stats.send.dequeued]
    /\ UNCHANGED <<reads, pc>>

(***************************************************************************)
(* receive_dgrams, one turn of its loop per step: read_device delivers a   *)
(* frame, which is processed, or it has no more (0) or fails (-1), which   *)
(* ends the loop.                                                          *)
(***************************************************************************)
\* a packet that process_ip or process_arp did not accept is counted as bad
ip_processed(p) ==
    IF p.rc # 0
    THEN [c |-> [p.c EXCEPT !.x.stats.process.bad_ip_packets = @ + 1], rc |-> p.rc]
    ELSE p

arp_processed(p) ==
    IF p.rc # 0
    THEN [c |-> [p.c EXCEPT !.x.stats.process.bad_arp_packets = @ + 1], rc |-> p.rc]
    ELSE p

\* a variant that hands broadcast IP packets to process_ip like the others
receive_switch_all(c, rc, ip, km) ==
    CASE ip.eh.type = ENET_TYPE_IP ->
           ip_processed(
             process_ip([c EXCEPT !.x.stats.receive.good_packets = @ + 1,
                                  !.x.stats.process.broadcast_ip_packets =
                                     IF ip.eh.destination = BROADCAST_ADDR THEN @ + 1 ELSE @,
                                  !.x.stats.process.normal_ip_packets =
                                     IF ip.eh.destination = BROADCAST_ADDR THEN @ ELSE @ + 1],
                        ip.ip, ip.ed, ip.length, km))
      [] ip.eh.type = ENET_TYPE_ARP ->
           arp_processed(
             process_arp([c EXCEPT !.x.stats.receive.good_packets = @ + 1,
                                   !.x.stats.process.arp_packets = @ + 1],
                         ip.arp))
      [] OTHER ->
           [c |-> [c EXCEPT !.x.stats.receive.bad_packets = @ + 1], rc |-> -1]

\* a variant that does not count a broadcast IP packet among the packets processed
receive_switch_uncounted(c, rc, ip, km) ==
    CASE ip.eh.type = ENET_TYPE_IP ->
           IF ip.eh.destination = BROADCAST_ADDR
           THEN [c |-> [c EXCEPT !.x.stats.receive.good_packets = @ + 1], rc |-> rc]
           ELSE ip_processed(
                  process_ip([c EXCEPT !.x.stats.receive.good_packets = @ + 1,
                                       !.x.stats.process.normal_ip_packets = @ + 1],
                             ip.ip, ip.ed, ip.length, km))
      [] ip.eh.type = ENET_TYPE_ARP ->
           arp_processed(
             process_arp([c EXCEPT !.x.stats.receive.good_packets = @ + 1,
                                   !.x.stats.process.arp_packets = @ + 1],
                         ip.arp))
      [] OTHER ->
           [c |-> [c EXCEPT !.x.stats.receive.bad_packets = @ + 1], rc |-> -1]

\* the switch on the type of the packet; rc keeps its value where no case sets it
receive_switch(c, rc, ip, km) ==
    CASE ip.eh.type = ENET_TYPE_IP ->
           IF ip.eh.destination = BROADCAST_ADDR
           THEN [c |-> [c EXCEPT !.x.stats.receive.good_packets = @ + 1,
                                 !.x.stats.process.broadcast_ip_packets = @ + 1],
                 rc |-> rc]
           ELSE ip_processed(
                  process_ip([c EXCEPT !.x.stats.receive.good_packets = @ + 1,
                                       !.x.stats.process.normal_ip_packets = @ + 1],
                             ip.ip, ip.ed, ip.length, km))
      [] ip.eh.type = ENET_TYPE_ARP ->
           arp_processed(
             process_arp([c EXCEPT !.x.stats.receive.good_packets = @ + 1,
                                   !.x.stats.process.arp_packets = @ + 1],
                         ip.arp))
      [] OTHER ->
           [c |-> [c EXCEPT !.x.stats.receive.bad_packets = @ + 1], rc |-> -1]

\* the accounting of the packet at the end of the turn
receive_account(r, length) ==
    IF r.rc = 0
    THEN [c |-> [r.c EXCEPT !.x.port.stat_rcv_data = @ + length], rc |-> r.rc]
    ELSE [c |-> [r.c EXCEPT !.x.port.stat_dropped = @ + 1], rc |-> r.rc]

receive_frame_body(c, rc, ip, km) ==
    receive_account(
      receive_switch([c EXCEPT !.x.stats.read.total_packets = @ + 1,
                               !.x.stats.receive.total_packets = @ + 1],
                     rc, ip, km),
      ip.length)

receive_frame_done(r, ip, timed_out, km) ==
    /\ Commit(r.c)
    /\ pc' = [loc |-> "receive", rc |-> r.rc,
              \* the frames this invocation has processed, and the reads counted
              \* when it began
              frames |-> pc.frames + 1,
              read0 |-> IF pc.loc = "idle" THEN x.stats.read.total_packets ELSE pc.read0]
    /\ last' = [op |-> "receive_frame", rc |-> r.rc, frame |-> ip,
                stuck |-> r.c.stuck, arpwait |-> x.arpwait, timed_out |-> timed_out,
                km |-> km,
                arp_table |-> arp_table, stat_sd_data |-> x.port.stat_sd_data,
                stat_rcv_data |-> x.port.stat_rcv_data,
                stat_dropped |-> x.port.stat_dropped,
                receive |-> x.port.receive, stats |-> x.stats, heap |-> heap,
                prev |-> IF /\ last.op = "receive_frame"
                            /\ last.frame.eh.type = ENET_TYPE_ARP
                            /\ last.rc = 0
                         THEN <<last.frame.arp>> ELSE << >>]

receive_frame(ip, budget) ==
    /\ x.port.active
    /\ reads < budget
    /\ \E wr \in WriteAnswers(IF ip.eh.type = ENET_TYPE_ARP
                             THEN Len(x.arpwait) + 1 ELSE 0),
          km \in MallocAnswers(ip),
          timed_out \in (IF ip.eh.type = ENET_TYPE_ARP THEN TimedOut(x.arpwait) ELSE {{}}) :
          receive_frame_done(receive_frame_body(Context(wr, timed_out), pc.rc, ip, km),
                             ip, timed_out, km)
    /\ reads' = reads + 1

\* the transport delivers a frame the last operation wrote with success, as a
\* peer's transport would deliver it to the same code: the bytes written and
\* their number (dgram names the datagram the frame was built from)
Delivered(frame) ==
    [eh |-> frame.eh, ip |-> frame.ip, ed |-> frame.ed, length |-> frame.length,
     dgram |-> frame.dgram]

receive_sent(budget) ==
    \E i \in 1..Len(wire) :
       /\ wire[i].ok
       /\ wire[i].frame.eh.type = ENET_TYPE_IP
       /\ receive_frame(Delivered(wire[i].frame), budget)

\* read_device finds no more, or fails
\* a variant that counts the failed reads only
read_nothing_uncounted(c, length) ==
    IF length < 0
    THEN [c EXCEPT !.x.stats.read.total_packets = @ + 1, !.x.stats.read.failed = @ + 1]
    ELSE c

read_nothing(c, length) ==
    IF length < 0
    THEN [c EXCEPT !.x.stats.read.total_packets = @ + 1, !.x.stats.read.failed = @ + 1]
    ELSE [c EXCEPT !.x.stats.read.total_packets = @ + 1]

receive_end(length, budget) ==
    /\ x.port.active
    /\ reads < budget
    /\ Commit(read_nothing(Context(<< >>, {}), length))
    /\ pc' = [loc |-> "idle", rc |-> 0, frames |-> 0, read0 |-> 0]
    /\ last' = [op |-> "receive_end", rc |-> length,
                frames |-> pc.frames,
                read0 |-> IF pc.loc = "idle" THEN x.stats.read.total_packets ELSE pc.read0,
                stats |-> x.stats, arp_table |-> arp_table, heap |-> heap,
                send |-> x.port.send, receive |-> x.port.receive, arpwait |-> x.arpwait]
    /\ reads' = reads + 1

(***************************************************************************)
(* receive_dgrams as one step, for any port and a transport that has no    *)
(* frame to deliver: the call returns before its loop when the port is not *)
(* the driver's or not active, and after one read that finds nothing       *)
(* otherwise.                                                              *)
(***************************************************************************)
receive_dgrams_entered(c, magic) == magic = EXTPORT_MAGIC /\ c.x.port.active

receive_dgrams_for(c, magic) ==
    IF receive_dgrams_entered(c, magic) THEN read_nothing(c, 0) ELSE c

receive_dgrams_port(magic, budget) ==
    /\ pc.loc = "idle"
    /\ receive_dgrams_entered(Context(<< >>, {}), magic) => reads < budget
    /\ Commit(receive_dgrams_for(Context(<< >>, {}), magic))
    /\ last' = [op |-> "receive_dgrams", rc |-> 0, magic |-> magic,
                active |-> x.port.active]
    /\ reads' = IF receive_dgrams_entered(Context(<< >>, {}), magic)
                THEN reads + 1 ELSE reads
    /\ UNCHANGED pc

(***************************************************************************)
(* control_device, for the codes that read or change the driver's state.   *)
(***************************************************************************)
\* a variant that leaves the counters of the reads
clear_stats_keep(stats) == [ZeroStats EXCEPT !.read = stats.read]

\* memset of x->stats: sets all entries in USBNET_STATS to 0
clear_stats(stats) == ZeroStats

control_device_body(c, code) ==
    CASE code = CTL_ETHER_GET_STAT ->
           [c |-> [c EXCEPT !.x.stats.hwaddr = c.x.hwaddr,
                            !.x.stats.macaddr = c.x.macaddr,
                            !.x.stats.arp_entries = arp_count(c.arp_table),
                            !.x.stats.trace_entries = TRACE_ENTRIES],
            rc |-> E_NORMAL]
      [] code = CTL_ETHER_CLR_STAT ->
           [c |-> [c EXCEPT !.x.stats = clear_stats(@)], rc |-> E_NORMAL]
      [] code = CTL_ETHER_GET_ARPTABLE ->      \* the table goes to the caller's buffer
           [c |-> c, rc |-> E_NORMAL]
      [] code = CTL_ETHER_CLR_ARPTABLE ->
           [c |-> [c EXCEPT !.arp_table = arp_init], rc |-> E_NORMAL]
      [] OTHER ->
           [c |-> c, rc |-> E_FNAVAIL]

control_device_done(r, code) ==
    /\ Commit(r.c)
    /\ last' = [op |-> "control_device", rc |-> r.rc, code |-> code, stats |-> x.stats,
                \* what the call wrote to the buffer at argument
                written |-> IF code = CTL_ETHER_GET_ARPTABLE
                            THEN arp_table_copy(r.c.arp_table) ELSE << >>]

control_device(code) ==
    /\ pc.loc = "idle"
    /\ control_device_done(control_device_body(Context(<< >>, {}), code), code)
    /\ UNCHANGED <<reads, pc>>

(***************************************************************************)
(* The specification: the host and the transport drive the driver with     *)
(* the given configurations, datagrams and frames.  The host queues a      *)
(* datagram while fewer than `structures' are in use, and the transport    *)
(* answers `budget' reads.                                                 *)
(***************************************************************************)
NextOver(cfgs, dgrams, frames, structures, budget) ==
    \/ \E cfg \in cfgs : host_configure(cfg)
    \/ \E d \in dgrams : host_send(d, structures)
    \/ \E state \in {0, 1} : set_device_state(state)
    \/ send_dgrams
    \/ \E ip \in frames : receive_frame(ip, budget)
    \/ \E length \in {0, -1} : receive_end(length, budget)

Configs == {CFG_C}

SendDgrams == { Dgram(HOST_50, GATEWAY, 0, 8) }

RecvFrames ==
    { ArpFrame(ARP_OP_ANS, "aa:bb:cc:dd:ee:ff", HOST_50, CFG_C.ip_addr),
      ArpFrame(ARP_OP_REQ, "11:22:33:44:55:66", GATEWAY, CFG_C.ip_addr),
      IpFrame(FACTORY_MAC, 60, 28, 5),
      OtherFrame }

Next == NextOver(Configs, SendDgrams, RecvFrames, MaxDgrams, MaxReads)

Spec == Init /\ [][Next]_vars

(***************************************************************************)
(* The same driver with datagrams for two next hops, one of which an ARP   *)
(* answer resolves while the other keeps missing the cache.                *)
(***************************************************************************)
DeferDgrams ==
    { Dgram(HOST_50, GATEWAY, 0, 8),
      Dgram(REMOTE, GATEWAY, 0, 8) }

DeferFrames == { ArpFrame(ARP_OP_ANS, "aa:bb:cc:dd:ee:ff", HOST_50, CFG_C.ip_addr) }

NextDefer == NextOver(Configs, DeferDgrams, DeferFrames, MaxDgrams, MaxReads)

SpecDefer == Init /\ [][NextDefer]_vars

(***************************************************************************)
(* The same driver on a network whose mask leaves sixteen host bits.       *)
(***************************************************************************)
HOST_B_255 == <<10, 1, 0, 255>>      \* a host of 10.1.0.0/16
BCAST_B    == <<10, 1, 255, 255>>    \* all host bits one
NET_B      == <<10, 1, 0, 0>>        \* all host bits zero
GATEWAY_B  == <<10, 1, 0, 254>>

MaskDgrams ==
    { Dgram(HOST_B_255, GATEWAY_B, 0, 8),
      Dgram(BCAST_B, GATEWAY_B, 0, 8),
      Dgram(NET_B, GATEWAY_B, 0, 8) }

MaskFrames == { ArpFrame(ARP_OP_ANS, "11:22:33:44:55:66", BCAST_B, CFG_B.ip_addr) }

NextMask == NextOver({CFG_B}, MaskDgrams, MaskFrames, MaxDgrams - 1, MaxReads)

SpecMask == Init /\ [][NextMask]_vars

(***************************************************************************)
(* The same driver with datagrams at and beyond the largest frame.         *)
(***************************************************************************)
LenDgrams ==
    { Dgram(HOST_50, GATEWAY, 0, 1480),      \* a frame of ETH_MAX_LEN bytes
      Dgram(HOST_50, GATEWAY, 0, 1481),      \* one byte more
      Dgram(HOST_50, GATEWAY, 0, 32767) }    \* the largest pkt_length

LenFrames == { ArpFrame(ARP_OP_ANS, "aa:bb:cc:dd:ee:ff", HOST_50, CFG_C.ip_addr) }

NextLen == NextOver(Configs, LenDgrams, LenFrames, MaxDgrams - 1, MaxReads)

SpecLen == Init /\ [][NextLen]_vars

(***************************************************************************)
(* The same driver with ARP packets of senders that repeat, among them the *)
(* sender address 0.0.0.0 of an address probe: one datagram to send, and   *)
(* one read more, so that a sender repeats beside the entry of another.    *)
(***************************************************************************)
CacheFrames ==
    { ArpFrame(ARP_OP_ANS, "aa:bb:cc:dd:ee:ff", HOST_50, CFG_C.ip_addr),
      ArpFrame(ARP_OP_ANS, "11:22:33:44:55:66", HOST_50, CFG_C.ip_addr),
      ArpFrame(ARP_OP_REQ, "11:22:33:44:55:66", HOST_51, CFG_C.ip_addr),
      ArpFrame(ARP_OP_REQ, "aa:bb:cc:dd:ee:ff", IP_ZERO, HOST_51) }

NextCache == NextOver(Configs, SendDgrams, CacheFrames, 1, MaxReads + 1)

SpecCache == Init /\ [][NextCache]_vars

(***************************************************************************)
(* The same driver with datagrams for a host of the network, for a remote  *)
(* host by the gateway, and for a remote host by a gateway that is not on  *)
(* the network either.                                                     *)
(***************************************************************************)
FAR_GATEWAY == <<8, 8, 4, 4>>       \* a gateway of neither network

RouteDgrams ==
    { Dgram(HOST_50, GATEWAY, 0, 8),
      Dgram(REMOTE, GATEWAY, 0, 8),
      Dgram(REMOTE, FAR_GATEWAY, 0, 8) }

RouteFrames == { ArpFrame(ARP_OP_ANS, "11:22:33:44:55:66", GATEWAY, CFG_C.ip_addr) }

NextRoute == NextOver(Configs, RouteDgrams, RouteFrames, MaxDgrams - 1, MaxReads)

SpecRoute == Init /\ [][NextRoute]_vars

(***************************************************************************)
(* The same driver with datagrams without and with options, from no data   *)
(* at all up to the largest frame, whose frames come back in as a peer     *)
(* would receive them.                                                     *)
(***************************************************************************)
LoopDgrams ==
    { Dgram(HOST_50, GATEWAY, 0, 0),         \* headers only, padded
      Dgram(HOST_50, GATEWAY, 4, 8),         \* options and data, padded
      Dgram(HOST_50, GATEWAY, 40, 1440) }    \* a frame of ETH_MAX_LEN bytes

LoopFrames == { ArpFrame(ARP_OP_ANS, "aa:bb:cc:dd:ee:ff", HOST_50, CFG_C.ip_addr) }

NextLoop ==
    \/ NextOver(Configs, LoopDgrams, LoopFrames, MaxDgrams - 1, MaxReads)
    \/ receive_sent(MaxReads)

SpecLoop == Init /\ [][NextLoop]_vars

(***************************************************************************)
(* The same driver with IP frames at and beyond each limit that process_ip *)
(* checks.                                                                 *)
(***************************************************************************)
IpFrames ==
    { IpFrame(FACTORY_MAC, 60, 28, 5),       \* 8 bytes of data, padded
      IpFrame(FACTORY_MAC, 60, 46, 5),       \* the IP packet fills the frame
      IpFrame(FACTORY_MAC, 60, 60, 5),       \* IP length = frame length
      IpFrame(FACTORY_MAC, 60, 61, 5),       \* IP length beyond the frame length
      IpFrame(FACTORY_MAC, 59, 28, 5),       \* shorter than ETH_MIN_LEN
      IpFrame(FACTORY_MAC, 1515, 28, 5),     \* longer than ETH_MAX_LEN
      IpFrame(FACTORY_MAC, 60, 28, 4),       \* header shorter than an IP header
      IpFrame(FACTORY_MAC, 60, 28, 8),       \* header longer than the IP length
      IpFrame(FACTORY_MAC, 60, 32, 8) }      \* 12 bytes of options, no data

NextIp == NextOver(Configs, SendDgrams, IpFrames, 1, MaxReads)

SpecIp == Init /\ [][NextIp]_vars

(***************************************************************************)
(* The same driver with ARP packets that are not for Ethernet and IPv4 or  *)
(* whose opcode is neither request nor answer, beside the answer of the    *)
(* gateway.                                                                *)
(***************************************************************************)
FunnyArp(field, value) ==
    [ArpFrame(ARP_OP_REQ, "aa:bb:cc:dd:ee:ff", HOST_50, CFG_C.ip_addr)
       EXCEPT !.arp[field] = value]

FunnyFrames ==
    { ArpFrame(ARP_OP_ANS, "11:22:33:44:55:66", GATEWAY, CFG_C.ip_addr),
      FunnyArp("hardware_space", "ARP_HARD_OTHER"),
      FunnyArp("hardware_len", 8),
      FunnyArp("protocol_space", ENET_TYPE_ARP),
      FunnyArp("protocol_len", 16),
      FunnyArp("op_code", "RARP_OP_REQ"),
      [FunnyArp("op_code", "RARP_OP_REQ") EXCEPT !.arp.protocol_len = 16] }

NextFunny == NextOver(Configs, SendDgrams, FunnyFrames, MaxDgrams - 1, MaxReads)

SpecFunny == Init /\ [][NextFunny]_vars

(***************************************************************************)
(* The same driver with frames of every kind receive_dgrams tells apart,   *)
(* and the control operations of the reporting tool in between.            *)
(***************************************************************************)
StatsFrames ==
    { ArpFrame(ARP_OP_ANS, "aa:bb:cc:dd:ee:ff", HOST_50, CFG_C.ip_addr),
      IpFrame(FACTORY_MAC, 60, 28, 5),
      IpFrame(BROADCAST_ADDR, 60, 28, 5),
      OtherFrame }

ControlCodes == {CTL_ETHER_GET_STAT, CTL_ETHER_CLR_STAT, CTL_ETHER_CLR_ARPTABLE}

NextStats ==
    \/ NextOver(Configs, SendDgrams, StatsFrames, MaxDgrams - 1, MaxReads)
    \/ \E code \in ControlCodes : control_device(code)

SpecStats == Init /\ [][NextStats]_vars

(***************************************************************************)
(* The same driver on a machine with a port of another driver: the stack   *)
(* calls send_dgrams and receive_dgrams for that port as well.             *)
(***************************************************************************)
NextPorts ==
    \/ NextOver(Configs, SendDgrams, RecvFrames, MaxDgrams, MaxReads)
    \/ \E magic \in Magics : send_dgrams_port(magic)
    \/ \E magic \in Magics : receive_dgrams_port(magic, MaxReads)

SpecPorts == Init /\ [][NextPorts]_vars

(***************************************************************************)
(* The same driver with ARP packets of two senders, and the reporting tool *)
(* that gets the statistics and then, when they tell of cache entries, the *)
(* ARP table into a buffer of that many entries.                           *)
(***************************************************************************)
TableFrames ==
    { ArpFrame(ARP_OP_ANS, "aa:bb:cc:dd:ee:ff", HOST_50, CFG_C.ip_addr),
      ArpFrame(ARP_OP_REQ, "11:22:33:44:55:66", HOST_51, CFG_C.ip_addr) }

\* display_arp: the table is asked for when the statistics got before tell of entries
tool_display_arp ==
    /\ x.stats.arp_entries > 0
    /\ control_device(CTL_ETHER_GET_ARPTABLE)

NextTable ==
    \/ NextOver(Configs, SendDgrams, TableFrames, 1, MaxReads + 2)
    \/ control_device(CTL_ETHER_GET_STAT)
    \/ tool_display_arp

SpecTable == Init /\ [][NextTable]_vars

(***************************************************************************)
(* The same driver on a network from which no ARP packet ever comes, the   *)
(* host calling send_dgrams and receive_dgrams again and again while the   *)
(* time to live of the datagrams runs out.                                 *)
(***************************************************************************)
LiveFrames == { IpFrame(BROADCAST_ADDR, 60, 28, 5), OtherFrame }

\* time passes: from now on check_dgram_ttl finds the datagram expired
deadline(dgram) ==
    /\ heap[dgram].alloc
    /\ ~heap[dgram].expired
    /\ heap' = [heap EXCEPT ![dgram].expired = TRUE]
    /\ UNCHANGED <<x, arp_table, arp_enet_pkt, wire, calls, dequeues, reads, pc, last>>

NextLive ==
    \/ NextOver(Configs, SendDgrams, LiveFrames, 1, MaxReads)
    \/ \E dgram \in DgramIds : deadline(dgram)

\* the host keeps calling both functions of the port; every deadline passes.
\* send_dgrams can be called whenever no receive loop is under way: the first
\* conjunct implies WF_vars(send_dgrams), with its ENABLED written out
FairLive ==
    /\ ([]<>(pc.loc # "idle") \/ []<><<send_dgrams>>_vars)
    /\ WF_vars(\E ip \in LiveFrames : receive_frame(ip, MaxReads))
    /\ WF_vars(\E length \in {0, -1} : receive_end(length, MaxReads))
    /\ \A dgram \in DgramIds : WF_vars(deadline(dgram))

SpecLive == Init /\ [][NextLive]_vars /\ FairLive

(***************************************************************************)
(* The same driver with ARP requests and replies for our address and for   *)
(* the address of another host.                                            *)
(***************************************************************************)
TargetFrames ==
    { ArpFrame(ARP_OP_REQ, "11:22:33:44:55:66", HOST_51, CFG_C.ip_addr),
      ArpFrame(ARP_OP_REQ, "11:22:33:44:55:66", HOST_51, HOST_50),
      ArpFrame(ARP_OP_ANS, "aa:bb:cc:dd:ee:ff", HOST_50, CFG_C.ip_addr),
      ArpFrame(ARP_OP_ANS, "aa:bb:cc:dd:ee:ff", HOST_50, HOST_51) }

NextTarget == NextOver(Configs, SendDgrams, TargetFrames, MaxDgrams - 1, MaxReads)

SpecTarget == Init /\ [][NextTarget]_vars

(***************************************************************************)
(* Vocabulary of the properties.                                           *)
(***************************************************************************)
\* the host bits of an address under the mask of the port
HostBits(port, a) == IpAnd(a, IpNot(port.sub_mask))

\* a unicast host of the port's own network
OnSubnetUnicast(port, a) ==
    /\ on_network(port, a)
    /\ HostBits(port, a) # IP_ZERO
    /\ HostBits(port, a) # IpNot(port.sub_mask)

\* an address of the port's own network
SameNetwork(port, a) ==
    \A i \in 1..4 : AndOctet(a[i], port.sub_mask[i]) = AndOctet(port.ip_addr[i], port.sub_mask[i])

\* the length a datagram's frame has: both headers, the options and the data
FrameLength(d) == SIZEOF_ENET_HDR + SIZEOF_IP_HDR + d.opt_length + d.pkt_length

\* the calls of process_output the last operation made for a datagram
CallsOf(g) == SelectSeq(calls, LAMBDA e : e.dgram = g)

\* the frames of a kind among those handed to the transport
ArpFramesOf(w, op_code) ==
    SelectSeq(w, LAMBDA e : e.frame.eh.type = ENET_TYPE_ARP /\ e.frame.arp.op_code = op_code)

IpFramesOf(w, g) ==
    SelectSeq(w, LAMBDA e : e.frame.eh.type = ENET_TYPE_IP /\ e.frame.dgram = g)

\* an ARP packet for Ethernet and IPv4 whose opcode is request or reply
ValidArp(arp) ==
    /\ arp.hardware_space = ARP_HARD_ETHER
    /\ arp.hardware_len = ETH_ALEN
    /\ arp.protocol_space = ENET_TYPE_IP
    /\ arp.protocol_len = 4
    /\ arp.op_code \in {ARP_OP_REQ, ARP_OP_ANS}

\* the last operation gave a frame to process_ip
HandledIp ==
    /\ last.op = "receive_frame"
    /\ last.frame.eh.type = ENET_TYPE_IP
    /\ last.frame.eh.destination # BROADCAST_ADDR

\* the three allocations of process_ip succeeded
Allocated ==
    /\ last.km = <<TRUE, TRUE, TRUE>>
    /\ FreeIds(last.heap) # {}

\* bytes that all lie within the frame received
WithinFrame(b) == \A k \in 1..Len(b) : b[k].src # "stale"

\* the last operation processed an ARP packet that process_arp accepted
HandledArp ==
    /\ last.op = "receive_frame"
    /\ last.frame.eh.type = ENET_TYPE_ARP
    /\ last.rc = 0

\* the occupied slots of a cache that hold an address
EntriesFor(table, a) ==
    {i \in 1..ArpSlots : table.slots[i].ip = a /\ table.slots[i].ip # IP_ZERO}

\* the times a datagram occurs on the three queues
Occurrences(g) ==
    Cardinality({i \in 1..Len(x.port.send) : x.port.send[i] = g})
      + Cardinality({i \in 1..Len(x.arpwait) : x.arpwait[i] = g})
      + Cardinality({i \in 1..Len(x.port.receive) : x.port.receive[i] = g})

(***************************************************************************)
(* C1.  With an empty cache and an active port, send_dgrams answers every  *)
(* live datagram for an on-subnet unicast host d with exactly one frame,   *)
(* an ARP request for d, and leaves the datagram on arpwait.  When         *)
(* process_arp then handles a valid ARP reply of sender (d, h) while the   *)
(* datagram, alone on arpwait, is unexpired and the write succeeds, the    *)
(* cache maps d to h, arpwait is empty, exactly one IP frame for the       *)
(* datagram went out, to h, and stat_sd_data grew by its IP length.        *)
(***************************************************************************)
C1_Request(g) ==
    /\ g \in Range(x.arpwait)
    /\ Len(CallsOf(g)) = 1
    /\ Len(CallsOf(g)[1].frames) = 1
    /\ CallsOf(g)[1].frames[1].frame.eh.type = ENET_TYPE_ARP
    /\ CallsOf(g)[1].frames[1].frame.arp.op_code = ARP_OP_REQ
    /\ CallsOf(g)[1].frames[1].frame.arp.dest_ip = heap[g].hdr.ip_dest

C1_Resolved(g, d, h) ==
    /\ arp_cache(arp_table, d) # NULL
    /\ arp_table.slots[arp_cache(arp_table, d)].ether = h
    /\ x.arpwait = << >>
    /\ Len(IpFramesOf(wire, g)) = 1
    /\ IpFramesOf(wire, g)[1].frame.eh.destination = h
    /\ x.port.stat_sd_data = last.stat_sd_data + heap[g].hdr.length

C1_ResolveThenSend ==
    /\ (last.op = "send_dgrams" /\ arp_count(arp_table) = 0) =>
          \A g \in Range(last.send) \ last.timed_out :
             OnSubnetUnicast(x.port, heap[g].hdr.ip_dest) => C1_Request(g)
    /\ (/\ HandledArp
        /\ last.frame.arp.op_code = ARP_OP_ANS
        /\ Len(last.arpwait) = 1
        /\ last.timed_out = {}
        /\ heap[last.arpwait[1]].hdr.ip_dest = last.frame.arp.src_ip
        /\ OnSubnetUnicast(x.port, last.frame.arp.src_ip)
        /\ \A i \in 1..Len(wire) : wire[i].ok) =>
          C1_Resolved(last.arpwait[1], last.frame.arp.src_ip, last.frame.arp.src_ether)

(***************************************************************************)
(* C2.  Whatever the mask, the interface address and the cache, every call *)
(* of process_output for a datagram whose destination host bits are all    *)
(* zero or all one returns -1 and hands no frame to the transport.         *)
(***************************************************************************)
C2_HostBitsRejected ==
    \A i \in 1..Len(calls) :
       (\/ HostBits(x.port, heap[calls[i].dgram].hdr.ip_dest) = IP_ZERO
        \/ HostBits(x.port, heap[calls[i].dgram].hdr.ip_dest) = IpNot(x.port.sub_mask)) =>
          /\ calls[i].rc = -1
          /\ calls[i].frames = << >>

(***************************************************************************)
(* C3.  Every call of process_output for a datagram whose frame length     *)
(* exceeds ETH_MAX_LEN returns -1, counts send.bad_length and writes no    *)
(* frame; after send_dgrams such a datagram is released and is not on      *)
(* arpwait.                                                                *)
(***************************************************************************)
C3_OversizeRejected ==
    /\ \A i \in 1..Len(calls) :
          FrameLength(heap[calls[i].dgram]) > ETH_MAX_LEN =>
             /\ calls[i].rc = -1
             /\ "bad_length" \in calls[i].counted
             /\ calls[i].frames = << >>
    /\ last.op = "send_dgrams" =>
          \A g \in Range(last.send) \ last.timed_out :
             FrameLength(heap[g]) > ETH_MAX_LEN =>
                /\ heap[g].frees = 1
                /\ g \notin Range(x.arpwait)

(***************************************************************************)
(* C4.  process_arp on a valid ARP request for the interface's own IP      *)
(* address hands exactly one ARP reply to the transport: addressed, in the *)
(* Ethernet header and in the ARP target fields, to the sender's hardware  *)
(* address and IP address, and sent from the interface's hardware address  *)
(* and IP address.                                                         *)
(***************************************************************************)
C4_RequestToUs ==
    /\ HandledArp
    /\ last.frame.arp.op_code = ARP_OP_REQ
    /\ last.frame.arp.dest_ip = x.port.ip_addr

C4_OneReply ==
    C4_RequestToUs =>
       /\ Len(ArpFramesOf(wire, ARP_OP_ANS)) = 1
       /\ LET reply == ArpFramesOf(wire, ARP_OP_ANS)[1].frame
          IN  /\ reply.eh.destination = last.frame.arp.src_ether
              /\ reply.arp.dest_ether = last.frame.arp.src_ether
              /\ reply.arp.dest_ip = last.frame.arp.src_ip
              /\ reply.eh.source = x.macaddr
              /\ reply.arp.src_ether = x.macaddr
              /\ reply.arp.src_ip = x.port.ip_addr

\* a request for our address arrived while a datagram was waiting, and was answered
C4_Witness ==
    /\ C4_RequestToUs
    /\ last.arpwait # << >>
    /\ Len(wire) >= 2
    /\ wire[1].frame.arp.op_code = ARP_OP_ANS

(***************************************************************************)
(* C5.  When process_arp has handled a valid ARP packet of sender (a, hw1) *)
(* and next handles one of sender (a, hw2), the cache holds exactly one    *)
(* entry for a, with hardware address hw2, and the second packet leaves    *)
(* the number of occupied slots and every other entry as they were.        *)
(* C5_SameSenderTwice states it for every a, C5_SameHostTwice for every a  *)
(* other than 0.0.0.0, the address that marks an empty slot.               *)
(***************************************************************************)
C5_TwoPackets ==
    /\ HandledArp
    /\ last.prev # << >>
    /\ last.prev[1].src_ip = last.frame.arp.src_ip

C5_Overwritten ==
    /\ Cardinality(EntriesFor(arp_table, last.frame.arp.src_ip)) = 1
    /\ \A i \in EntriesFor(arp_table, last.frame.arp.src_ip) :
          arp_table.slots[i].ether = last.frame.arp.src_ether
    /\ arp_count(arp_table) = arp_count(last.arp_table)
    /\ \A i \in 1..ArpSlots :
          last.arp_table.slots[i].ip # last.frame.arp.src_ip =>
             arp_table.slots[i] = last.arp_table.slots[i]

C5_SameSenderTwice == C5_TwoPackets => C5_Overwritten

C5_SameHostTwice ==
    (C5_TwoPackets /\ last.frame.arp.src_ip # IP_ZERO) => C5_Overwritten

\* the second packet of a host changed the hardware address the first had entered,
\* beside the entry of another host
C5_Witness ==
    /\ C5_TwoPackets
    /\ last.frame.arp.src_ip # IP_ZERO
    /\ last.prev[1].src_ether # last.frame.arp.src_ether
    /\ arp_count(arp_table) = 2

(***************************************************************************)
(* C6.  Every call of dequeue_dgram on a queue that begins with N expired  *)
(* dgrams followed by a live one returns the live one and leaves the       *)
(* dgrams after it, in their order; on a queue of expired dgrams only it   *)
(* returns NULL and leaves the queue empty.  Either way each of the        *)
(* expired dgrams has been released exactly once.                          *)
(***************************************************************************)
LeadingExpired(queue) ==
    CHOOSE n \in 0..Len(queue) :
       /\ \A k \in 1..n : heap[queue[k]].expired
       /\ n = Len(queue) \/ ~heap[queue[n + 1]].expired

C6_Dequeue(e) ==
    /\ \A k \in 1..LeadingExpired(e.queue) : heap[e.queue[k]].frees = 1
    /\ IF LeadingExpired(e.queue) < Len(e.queue)
       THEN /\ e.dgram = e.queue[LeadingExpired(e.queue) + 1]
            /\ e.rest = SubSeq(e.queue, LeadingExpired(e.queue) + 2, Len(e.queue))
       ELSE /\ e.dgram = NULL
            /\ e.rest = << >>

C6_ExpiredDropped == \A i \in 1..Len(dequeues) : C6_Dequeue(dequeues[i])

\* a call on a queue of an expired dgram, a live one and one more
C6_Witness ==
    \E i \in 1..Len(dequeues) :
       /\ Len(dequeues[i].queue) = 3
       /\ LeadingExpired(dequeues[i].queue) = 1
       /\ dequeues[i].dgram = dequeues[i].queue[2]
       /\ dequeues[i].rest = <<dequeues[i].queue[3]>>

(***************************************************************************)
(* C7.  process_arp comes to its end, and passes each dgram waiting for    *)
(* address resolution to process_output at most once, also when every one  *)
(* of them still misses the cache and is requeued.                         *)
(***************************************************************************)
C7_DrainedOnce ==
    (last.op = "receive_frame" /\ last.frame.eh.type = ENET_TYPE_ARP) =>
       /\ ~last.stuck
       /\ Len(calls) <= Len(last.arpwait)
       /\ \A g \in DgramIds : Len(CallsOf(g)) <= 1

\* two dgrams were waiting, both missed the cache again and were requeued
C7_Witness ==
    /\ HandledArp
    /\ Len(last.arpwait) >= 2
    /\ Len(calls) = Len(last.arpwait)
    /\ \A i \in 1..Len(calls) : calls[i].rc = 0
    /\ x.arpwait = last.arpwait

(***************************************************************************)
(* C8.  After process_arp has accepted a packet, arpwait holds exactly the *)
(* dgrams that waited before, were unexpired and whose next hop still      *)
(* misses the cache, in the order they had; every other dgram that waited  *)
(* has expired or was sent or rejected by process_output, and is released. *)
(***************************************************************************)
StillMissing(g) ==
    /\ g \notin last.timed_out
    /\ arp_cache(arp_table, next_hop(x.port, heap[g])) = NULL

C8_RequeuedInOrder ==
    HandledArp =>
       /\ x.arpwait = SelectSeq(last.arpwait, StillMissing)
       /\ \A g \in Range(last.arpwait) \ Range(x.arpwait) :
             /\ heap[g].frees = 1
             /\ \/ g \in last.timed_out
                \/ Len(CallsOf(g)) = 1 /\ CallsOf(g)[1].rc # 0

\* of three dgrams waiting the second one was sent, the first and third stay
C8_Witness ==
    /\ HandledArp
    /\ Len(last.arpwait) = 3
    /\ x.arpwait = <<last.arpwait[1], last.arpwait[3]>>
    /\ Len(CallsOf(last.arpwait[2])) = 1
    /\ CallsOf(last.arpwait[2])[1].rc > 0

(***************************************************************************)
(* C9.  In every state each dgram the driver has taken over is in exactly  *)
(* one place: once on one of the queues send, arpwait and receive and not  *)
(* released, or released once and on no queue.                             *)
(***************************************************************************)
C9_OnePlace ==
    /\ \A g \in DgramIds :
          heap[g].alloc =>
             \/ heap[g].frees = 0 /\ Occurrences(g) = 1
             \/ heap[g].frees = 1 /\ Occurrences(g) = 0
    /\ \A g \in Range(x.port.send) \cup Range(x.arpwait) \cup Range(x.port.receive) :
          heap[g].alloc

\* one dgram waits for address resolution, one is on the receive queue, one is released
C9_Witness ==
    /\ x.arpwait # << >>
    /\ x.port.receive # << >>
    /\ \E g \in DgramIds : heap[g].alloc /\ heap[g].frees = 1

(***************************************************************************)
(* C10.  set_device_state(port, 0) returns TRUE, leaves port.send and      *)
(* port.receive empty, and has released each dgram that was on either      *)
(* queue exactly once.                                                     *)
(***************************************************************************)
C10_DownFlushes ==
    (last.op = "set_device_state" /\ last.state = 0) =>
       /\ last.rc = TRUE
       /\ x.port.send = << >>
       /\ x.port.receive = << >>
       /\ \A g \in Range(last.send) \cup Range(last.receive) : heap[g].frees = 1

\* the port went down with two dgrams to send and one received
C10_Witness ==
    /\ last.op = "set_device_state"
    /\ last.state = 0
    /\ Len(last.send) = 2
    /\ last.receive # << >>

(***************************************************************************)
(* C11.  Every frame the transport failed to take makes the function that  *)
(* handed it over return -1 to its caller: process_output for an IP frame, *)
(* send_arp for the ARP request of process_output and for the ARP answer   *)
(* of process_arp.  None of them tries again: a call of process_output     *)
(* hands over at most one frame, send_dgrams at most one per dgram to      *)
(* send, process_arp at most one per dgram waiting and one answer.         *)
(***************************************************************************)
C11_FailureReturned ==
    /\ \A i \in 1..Len(wire) : ~wire[i].ok => wire[i].result = <<-1>>
    /\ \A i \in 1..Len(calls) :
          /\ Len(calls[i].frames) <= 1
          /\ \A k \in 1..Len(calls[i].frames) :
                (calls[i].frames[k].frame.eh.type = ENET_TYPE_IP /\ ~calls[i].frames[k].ok) =>
                   calls[i].rc = -1
    /\ last.op = "send_dgrams" => Len(wire) <= Len(last.send)
    /\ last.op = "receive_frame" =>
          /\ Len(wire) <= Len(last.arpwait) + 1
          /\ Len(ArpFramesOf(wire, ARP_OP_ANS)) <= 1

\* the answer to a request failed, and so did the new request for a dgram waiting
C11_Witness ==
    /\ last.op = "receive_frame"
    /\ Len(wire) = 2
    /\ wire[1].frame.arp.op_code = ARP_OP_ANS /\ ~wire[1].ok
    /\ wire[2].frame.eh.type = ENET_TYPE_ARP /\ ~wire[2].ok
    /\ wire[2].frame.arp.op_code = ARP_OP_REQ

(***************************************************************************)
(* C12.  process_arp returns 0 for every ARP packet for Ethernet and IPv4  *)
(* whose opcode is request or reply, whether or not the write of the       *)
(* answer failed and whatever became of the dgrams that were waiting.      *)
(***************************************************************************)
C12_ValidAccepted ==
    (/\ last.op = "receive_frame"
     /\ last.frame.eh.type = ENET_TYPE_ARP
     /\ ValidArp(last.frame.arp)) =>
       last.rc = 0

\* the address of a dgram waiting was resolved, and the write of its frame failed
C12_Witness ==
    /\ last.op = "receive_frame"
    /\ last.frame.eh.type = ENET_TYPE_ARP
    /\ ValidArp(last.frame.arp)
    /\ last.arpwait # << >>
    /\ \E i \in 1..Len(calls) :
          /\ calls[i].rc = -1
          /\ calls[i].frames # << >>
          /\ ~calls[i].frames[1].ok

(***************************************************************************)
(* C13.  Every call of process_output for a datagram that passes the       *)
(* length and host-bits checks addresses its one frame to the destination  *)
(* when that lies in the port's network, to the datagram's gateway when    *)
(* only the gateway does, and otherwise returns -1, counts                 *)
(* send.bad_network and hands no frame to the transport; the datagram so   *)
(* rejected is released by the caller and is not on arpwait.               *)
(***************************************************************************)
\* the one frame of a call asks for, or goes to, the hardware address of hop
C13_Addressed(e, hop) ==
    /\ Len(e.frames) = 1
    /\ \/ /\ e.frames[1].frame.eh.type = ENET_TYPE_ARP
          /\ e.frames[1].frame.arp.op_code = ARP_OP_REQ
          /\ e.frames[1].frame.arp.dest_ip = hop
       \/ /\ e.frames[1].frame.eh.type = ENET_TYPE_IP
          /\ EntriesFor(arp_table, hop) # {}
          /\ \A i \in EntriesFor(arp_table, hop) :
                e.frames[1].frame.eh.destination = arp_table.slots[i].ether

C13_Unroutable(e) ==
    /\ e.rc = -1
    /\ e.counted = {"bad_network"}
    /\ e.frames = << >>
    /\ heap[e.dgram].frees = 1
    /\ e.dgram \notin Range(x.arpwait)

C13_ChecksPassed(d) ==
    /\ FrameLength(d) <= ETH_MAX_LEN
    /\ HostBits(x.port, d.hdr.ip_dest) # IP_ZERO
    /\ HostBits(x.port, d.hdr.ip_dest) # IpNot(x.port.sub_mask)

C13_NextHop ==
    \A i \in 1..Len(calls) :
       C13_ChecksPassed(calls[i].before) =>
          IF SameNetwork(x.port, calls[i].before.hdr.ip_dest)
          THEN C13_Addressed(calls[i], calls[i].before.hdr.ip_dest)
          ELSE IF SameNetwork(x.port, calls[i].before.ip_gateway)
          THEN C13_Addressed(calls[i], calls[i].before.ip_gateway)
          ELSE C13_Unroutable(calls[i])

\* send_dgrams sent one datagram by the gateway and rejected one without a route
C13_Witness ==
    /\ last.op = "send_dgrams"
    /\ Len(calls) = 2
    /\ \E i, j \in 1..2 :
          /\ ~SameNetwork(x.port, calls[i].before.hdr.ip_dest)
          /\ SameNetwork(x.port, calls[i].before.ip_gateway)
          /\ calls[i].rc > 0
          /\ ~SameNetwork(x.port, calls[j].before.hdr.ip_dest)
          /\ ~SameNetwork(x.port, calls[j].before.ip_gateway)
          /\ calls[j].rc = -1

(***************************************************************************)
(* C14.  Every call of process_output for a datagram that passes the       *)
(* checks and whose next hop is not in the cache hands exactly one frame   *)
(* to the transport, an ARP request to the Ethernet broadcast address      *)
(* whose target IP is the next hop (the gateway for a destination outside  *)
(* the network), hands over no IP frame, returns 0, and leaves the         *)
(* datagram as it was: not released, not modified.                         *)
(***************************************************************************)
C14_Hop(d) ==
    IF SameNetwork(x.port, d.hdr.ip_dest) THEN d.hdr.ip_dest ELSE d.ip_gateway

C14_Missed(e) ==
    /\ C13_ChecksPassed(e.before)
    /\ SameNetwork(x.port, C14_Hop(e.before))
    /\ EntriesFor(arp_table, C14_Hop(e.before)) = {}

C14_MissAsks ==
    \A i \in 1..Len(calls) :
       C14_Missed(calls[i]) =>
          /\ calls[i].rc = 0
          /\ Len(calls[i].frames) = 1
          /\ calls[i].frames[1].frame.eh.type = ENET_TYPE_ARP
          /\ calls[i].frames[1].frame.eh.destination = BROADCAST_ADDR
          /\ calls[i].frames[1].frame.arp.op_code = ARP_OP_REQ
          /\ calls[i].frames[1].frame.arp.dest_ip = C14_Hop(calls[i].before)
          /\ calls[i].after = calls[i].before
          /\ calls[i].after.frees = 0

\* a datagram for a remote host missed the cache when an ARP packet had gone out
\* before: the request asks for the gateway
C14_Witness ==
    \E i \in 1..Len(calls) :
       /\ C14_Missed(calls[i])
       /\ ~SameNetwork(x.port, calls[i].before.hdr.ip_dest)
       /\ calls[i].frames[1].frame.arp.dest_ip = calls[i].before.ip_gateway
       /\ x.stats.send.arp_packets >= 2

(***************************************************************************)
(* C15.  Round trip.  For every datagram whose header is consistent with   *)
(* its lengths (IP length = 20 + opt_length + pkt_length, header length    *)
(* field = (20 + opt_length) / 4) and fits a frame, the frame that         *)
(* process_output wrote on a cache hit, given to process_ip with the       *)
(* length written, is accepted when the allocations succeed, and the       *)
(* datagram appended to the receive queue has the header, the options and  *)
(* the data of the original; the padding is left out.                      *)
(***************************************************************************)
C15_Consistent(d) ==
    /\ d.opt_length >= 0 /\ d.pkt_length >= 0
    /\ d.hdr.length = SIZEOF_IP_HDR + d.opt_length + d.pkt_length
    /\ d.hdr.hd_len * 4 = SIZEOF_IP_HDR + d.opt_length
    /\ FrameLength(d) <= ETH_MAX_LEN

C15_SentBack ==
    /\ last.op = "receive_frame"
    /\ last.frame.eh.type = ENET_TYPE_IP
    /\ "dgram" \in DOMAIN last.frame
    /\ C15_Consistent(last.heap[last.frame.dgram])
    /\ last.km = <<TRUE, TRUE, TRUE>>
    /\ FreeIds(last.heap) # {}

C15_Same(new, old) ==
    /\ new.hdr = old.hdr
    /\ new.opt_length = old.opt_length
    /\ new.pkt_length = old.pkt_length
    /\ new.options.bytes = old.options.bytes
    /\ new.pkt_data.bytes = old.pkt_data.bytes

C15_RoundTrip ==
    C15_SentBack =>
       /\ last.rc = 0
       /\ Len(x.port.receive) = Len(last.receive) + 1
       /\ C15_Same(heap[x.port.receive[Len(x.port.receive)]], last.heap[last.frame.dgram])

\* a padded frame of a datagram with options and data came back
C15_Witness ==
    /\ C15_SentBack
    /\ last.frame.length = ETH_MIN_LEN
    /\ last.heap[last.frame.dgram].opt_length > 0
    /\ last.heap[last.frame.dgram].pkt_length > 0
    /\ BLen(last.frame.ed) > last.heap[last.frame.dgram].opt_length
                                + last.heap[last.frame.dgram].pkt_length

\* a frame of the largest length came back
C15_WitnessMax ==
    /\ C15_SentBack
    /\ last.frame.length = ETH_MAX_LEN
    /\ last.rc = 0

(***************************************************************************)
(* C16.  process_ip returns -1 and leaves the receive queue as it was when *)
(* the frame length is outside ETH_MIN_LEN..ETH_MAX_LEN, or the IP length  *)
(* exceeds the frame length, or the header length times 4 is below 20 or   *)
(* above the IP length.  When all checks pass and the allocations succeed  *)
(* it returns 0 and appends one new datagram, with the frame's header,     *)
(* options and data, at the tail of the receive queue.                     *)
(***************************************************************************)
C16_ChecksPass(f) ==
    /\ f.length >= ETH_MIN_LEN /\ f.length <= ETH_MAX_LEN
    /\ f.ip.length <= f.length
    /\ f.ip.hd_len * 4 >= SIZEOF_IP_HDR
    /\ f.ip.hd_len * 4 <= f.ip.length

C16_Rejected ==
    /\ last.rc = -1
    /\ x.port.receive = last.receive

\* the datagram at the tail is new and holds the header and, of the bytes the
\* frame has behind it, the options and the data
C16_Carries(n, f) ==
    /\ ~last.heap[n].alloc
    /\ heap[n].hdr = f.ip
    /\ heap[n].options.bytes = Copy(f.ed, 0, f.ip.hd_len * 4 - SIZEOF_IP_HDR)
    /\ heap[n].pkt_data.bytes =
          Copy(f.ed, f.ip.hd_len * 4 - SIZEOF_IP_HDR, f.ip.length - f.ip.hd_len * 4)
    /\ WithinFrame(heap[n].options.bytes)
    /\ WithinFrame(heap[n].pkt_data.bytes)

C16_Appended ==
    /\ last.rc = 0
    /\ Len(x.port.receive) = Len(last.receive) + 1
    /\ SubSeq(x.port.receive, 1, Len(last.receive)) = last.receive
    /\ C16_Carries(x.port.receive[Len(x.port.receive)], last.frame)

C16_Validated ==
    HandledIp =>
       /\ ~C16_ChecksPass(last.frame) => C16_Rejected
       /\ (C16_ChecksPass(last.frame) /\ Allocated) => C16_Appended

\* the same for the frames whose IP packet ends within the frame
C16_ValidatedWithin ==
    HandledIp =>
       /\ ~C16_ChecksPass(last.frame) => C16_Rejected
       /\ (/\ C16_ChecksPass(last.frame)
           /\ last.frame.ip.length <= last.frame.length - SIZEOF_ENET_HDR
           /\ Allocated) => C16_Appended

(***************************************************************************)
(* C17.  When an allocation of process_ip fails (the structure, the        *)
(* options buffer or the data buffer, also one of zero length) for a frame *)
(* that passes the checks, process_ip returns -1, the receive queue is as  *)
(* it was, the structure and each buffer that was allocated for the frame  *)
(* have been released exactly once, a buffer that was not allocated has    *)
(* not been released, and no other datagram has been touched.              *)
(***************************************************************************)
C17_AllocationFailed ==
    /\ HandledIp
    /\ C16_ChecksPass(last.frame)
    /\ ~Allocated

C17_ReleasedOnce(cell) ==
    /\ cell.frees = 1
    /\ cell.options.frees  = IF cell.options.null  THEN 0 ELSE 1
    /\ cell.pkt_data.frees = IF cell.pkt_data.null THEN 0 ELSE 1

C17_NothingLeft ==
    C17_AllocationFailed =>
       /\ last.rc = -1
       /\ x.port.receive = last.receive
       /\ \A n \in DgramIds :
             IF last.heap[n].alloc \/ ~heap[n].alloc
             THEN heap[n] = last.heap[n]
             ELSE C17_ReleasedOnce(heap[n])
       /\ (~last.km[1] \/ FreeIds(last.heap) = {}) => heap = last.heap

\* for a frame without options the buffer of the options was refused and the
\* buffer of the data, which had been allocated, was released
C17_Witness ==
    /\ C17_AllocationFailed
    /\ last.frame.ip.hd_len * 4 = SIZEOF_IP_HDR
    /\ last.km = <<TRUE, FALSE, TRUE>>
    /\ \E n \in DgramIds :
          /\ ~last.heap[n].alloc /\ heap[n].alloc
          /\ heap[n].options.null
          /\ heap[n].pkt_data.frees = 1

(***************************************************************************)
(* C18.  process_arp on a packet whose hardware space or length or         *)
(* protocol space or length is not that of Ethernet and IPv4, or whose     *)
(* opcode is neither request nor reply, returns -1, counts exactly one of  *)
(* arp.input_errors and arp.opcode_errors, hands nothing to the transport  *)
(* and leaves the cache and arpwait as they were.                          *)
(***************************************************************************)
C18_Funny ==
    /\ last.op = "receive_frame"
    /\ last.frame.eh.type = ENET_TYPE_ARP
    /\ ~ValidArp(last.frame.arp)

C18_FunnyIgnored ==
    C18_Funny =>
       /\ last.rc = -1
       /\ \/ x.stats.arp = [last.stats.arp EXCEPT !.input_errors = @ + 1]
          \/ x.stats.arp = [last.stats.arp EXCEPT !.opcode_errors = @ + 1]
       /\ wire = << >>
       /\ calls = << >>
       /\ arp_table = last.arp_table
       /\ x.arpwait = last.arpwait
       /\ \A g \in DgramIds : heap[g].frees = last.heap[g].frees

\* a packet of another opcode came in while the cache held an entry and a dgram
\* was waiting
C18_Witness ==
    /\ C18_Funny
    /\ last.frame.arp.protocol_len = 4
    /\ arp_count(last.arp_table) = 1
    /\ last.arpwait # << >>
    /\ x.stats.arp.opcode_errors = 1

(***************************************************************************)
(* C19.  After any sequence of receive_dgrams calls and clears of the      *)
(* statistics, receive.total_packets = receive.good_packets +              *)
(* receive.bad_packets, and receive.good_packets =                         *)
(* process.broadcast_ip_packets + process.normal_ip_packets +              *)
(* process.arp_packets.                                                    *)
(***************************************************************************)
C19_ReceivePartition ==
    /\ x.stats.receive.total_packets =
          x.stats.receive.good_packets + x.stats.receive.bad_packets
    /\ x.stats.receive.good_packets =
          x.stats.process.broadcast_ip_packets + x.stats.process.normal_ip_packets
            + x.stats.process.arp_packets

\* a broadcast IP packet was received after the statistics had been cleared of an
\* earlier packet
C19_Witness ==
    /\ last.op = "receive_frame"
    /\ last.frame.eh.type = ENET_TYPE_IP
    /\ last.frame.eh.destination = BROADCAST_ADDR
    /\ reads = 2
    /\ x.stats.read.total_packets = 1
    /\ x.stats.receive.total_packets = 1
    /\ x.stats.process.broadcast_ip_packets = 1

(***************************************************************************)
(* C20.  No step of the driver makes a counter of the statistics smaller,  *)
(* except the clear-statistics control operation, which sets every counter *)
(* to zero.                                                                *)
(***************************************************************************)
CounterGroups == {"read", "receive", "process", "send", "write", "arp"}

C20_NoneSmaller(old, new) ==
    \A g \in CounterGroups : \A k \in DOMAIN old[g] : new[g][k] >= old[g][k]

C20_AllZero(stats) ==
    \A g \in CounterGroups : \A k \in DOMAIN stats[g] : stats[g][k] = 0

C20_Monotone ==
    [][ IF last'.op = "control_device" /\ last'.code = CTL_ETHER_CLR_STAT
        THEN C20_AllZero(x'.stats)
        ELSE C20_NoneSmaller(x.stats, x'.stats) ]_vars

\* the statistics were cleared when packets had been sent and received
C20_Witness ==
    /\ last.op = "control_device"
    /\ last.code = CTL_ETHER_CLR_STAT
    /\ last.stats.receive.total_packets > 0
    /\ last.stats.send.arp_packets > 0
    /\ C20_AllZero(x.stats)

(***************************************************************************)
(* C21.  CTL_ETHER_GET_ARPTABLE writes to the caller's buffer at most as   *)
(* many entries as the arp_entries count that the caller's preceding       *)
(* CTL_ETHER_GET_STAT returned, however the two calls interleave with      *)
(* receive_dgrams entering senders into the cache.  (Under SpecTable the   *)
(* statistics are not cleared, so x.stats.arp_entries is the count the     *)
(* last CTL_ETHER_GET_STAT returned.)                                      *)
(***************************************************************************)
C21_TableFits ==
    (last.op = "control_device" /\ last.code = CTL_ETHER_GET_ARPTABLE) =>
       Len(last.written) <= x.stats.arp_entries

\* the same when no sender was entered between the two calls
C21_TableFitsQuiet ==
    (/\ last.op = "control_device" /\ last.code = CTL_ETHER_GET_ARPTABLE
     /\ arp_count(arp_table) = x.stats.arp_entries) =>
       Len(last.written) <= x.stats.arp_entries

(***************************************************************************)
(* C22.  Between driver operations the number of datagrams on arpwait is   *)
(* arp.wait_queued + arp.wait_requeued - arp.wait_dequeued, whatever sends, *)
(* ARP packets, expiries and clears of the statistics came before.         *)
(***************************************************************************)
C22_Awaiting(port) ==
    port.stats.arp.wait_queued + port.stats.arp.wait_requeued
       - port.stats.arp.wait_dequeued

C22_WaitingCounted == Len(x.arpwait) = C22_Awaiting(x)

\* a step in which no datagram is found expired and the statistics are not
\* cleared changes both sides by the same amount
C22_Expiring ==
    /\ last'.op \in {"send_dgrams", "receive_frame"}
    /\ last'.timed_out # {}

C22_Clearing ==
    /\ last'.op = "control_device"
    /\ last'.code = CTL_ETHER_CLR_STAT

C22_StepCounted ==
    [][ (~C22_Expiring /\ ~C22_Clearing) =>
           Len(x'.arpwait) - Len(x.arpwait) = C22_Awaiting(x') - C22_Awaiting(x) ]_vars

(***************************************************************************)
(* C23.  When set_device_state(port, 0) has returned TRUE, arpwait is      *)
(* empty and each datagram that was waiting on it has been released.       *)
(***************************************************************************)
C23_Deactivated ==
    /\ last.op = "set_device_state"
    /\ last.state = 0
    /\ last.rc = TRUE

C23_WaitingFlushed ==
    C23_Deactivated =>
       /\ x.arpwait = << >>
       /\ \A i \in 1..Len(last.arpwait) : heap[last.arpwait[i]].frees = 1

\* what the deactivation does flush: the send and the receive queue
C23_QueuesFlushed ==
    C23_Deactivated =>
       /\ x.port.send = << >>
       /\ x.port.receive = << >>
       /\ \A i \in 1..Len(last.send) : heap[last.send[i]].frees = 1
       /\ \A i \in 1..Len(last.receive) : heap[last.receive[i]].frees = 1
       /\ x.arpwait = last.arpwait

(***************************************************************************)
(* C24.  receive_dgrams counts a frame in stat_dropped only if that frame  *)
(* itself was rejected (unknown type, process_ip failed, process_arp       *)
(* failed); every other frame, a broadcast IP frame among them, adds its   *)
(* length to stat_rcv_data, whatever frames the same invocation read       *)
(* before it.                                                              *)
(***************************************************************************)
\* the frame itself was rejected: one of the three counters of bad packets grew
C24_Rejected ==
    \/ x.stats.receive.bad_packets > last.stats.receive.bad_packets
    \/ x.stats.process.bad_ip_packets > last.stats.process.bad_ip_packets
    \/ x.stats.process.bad_arp_packets > last.stats.process.bad_arp_packets

\* the deferred datagrams that process_arp's drain dropped while the frame was
\* processed: stat_dropped counts those too
C24_DrainDropped == Cardinality({i \in 1..Len(calls) : calls[i].rc = -1})

C24_Dropped ==
    /\ x.port.stat_dropped = last.stat_dropped + C24_DrainDropped + 1
    /\ x.port.stat_rcv_data = last.stat_rcv_data

C24_Received ==
    /\ x.port.stat_dropped = last.stat_dropped + C24_DrainDropped
    /\ x.port.stat_rcv_data = last.stat_rcv_data + last.frame.length

C24_OwnAccount ==
    last.op = "receive_frame" =>
       IF C24_Rejected THEN C24_Dropped ELSE C24_Received

\* the same for the frames that are not broadcast IP frames
C24_OwnAccountSet ==
    (/\ last.op = "receive_frame"
     /\ ~(last.frame.eh.type = ENET_TYPE_IP /\ last.frame.eh.destination = BROADCAST_ADDR)) =>
       IF C24_Rejected THEN C24_Dropped ELSE C24_Received

(***************************************************************************)
(* C25.  Every datagram put on arpwait is eventually transmitted or        *)
(* released (either way it leaves the queue), when send_dgrams and         *)
(* receive_dgrams keep being called on the active port and the deadlines   *)
(* pass, even if no ARP packet is ever received.                           *)
(***************************************************************************)
C25_DeferredLeave ==
    \A dgram \in DgramIds :
       (dgram \in Range(x.arpwait)) ~> (dgram \notin Range(x.arpwait))

\* the only step that takes a datagram off arpwait is the processing of an
\* ARP packet
C25_OnlyArpDrains ==
    [][ (\E dgram \in Range(x.arpwait) : dgram \notin Range(x'.arpwait)) =>
           (last'.op = "receive_frame" /\ last'.frame.eh.type = ENET_TYPE_ARP) ]_vars

(***************************************************************************)
(* C26.  send_dgrams on an active port terminates with the send queue      *)
(* empty, having passed each unexpired datagram to process_output exactly  *)
(* once, in queue order; each of them ends written and released, rejected  *)
(* and released, or appended to the tail of arpwait, and send.dequeued     *)
(* grows by the number of unexpired datagrams.                             *)
(***************************************************************************)
\* the datagrams the call found on the send queue with time to live left
C26_Unexpired ==
    SelectSeq(last.send, LAMBDA g : g \notin last.expired /\ g \notin last.timed_out)

\* the datagrams passed to process_output, in the order of the calls
C26_Passed == [i \in 1..Len(calls) |-> calls[i].dgram]

C26_Written(i) ==
    /\ calls[i].rc > 0
    /\ \E k \in 1..Len(wire) :
          /\ wire[k].ok
          /\ wire[k].frame.eh.type = ENET_TYPE_IP
          /\ wire[k].frame.dgram = calls[i].dgram
    /\ heap[calls[i].dgram].frees = 1
    /\ calls[i].dgram \notin Range(x.arpwait)

C26_Rejected(i) ==
    /\ calls[i].rc = -1
    /\ heap[calls[i].dgram].frees = 1
    /\ calls[i].dgram \notin Range(x.arpwait)

C26_Deferred(i) ==
    /\ calls[i].rc = 0
    /\ heap[calls[i].dgram].frees = 0

C26_SendCompletes ==
    (last.op = "send_dgrams" /\ x.port.active) =>
       /\ ~last.stuck
       /\ x.port.send = << >>
       /\ C26_Passed = C26_Unexpired
       /\ \A i \in 1..Len(calls) : C26_Written(i) \/ C26_Rejected(i) \/ C26_Deferred(i)
       /\ x.arpwait = last.arpwait \o
             [i \in 1..Len(SelectSeq(calls, LAMBDA e : e.rc = 0)) |->
                SelectSeq(calls, LAMBDA e : e.rc = 0)[i].dgram]
       /\ x.stats.send.dequeued = last.dequeued + Len(C26_Unexpired)

\* a call that found three datagrams: one had expired, one was written, one
\* was deferred
C26_Witness ==
    /\ last.op = "send_dgrams"
    /\ x.port.active
    /\ Len(last.send) = 3
    /\ Len(C26_Unexpired) = 2
    /\ \E i, j \in 1..Len(calls) : calls[i].rc > 0 /\ calls[j].rc = 0

(***************************************************************************)
(* C27.  process_output returns a value > 0 only when exactly one IP frame *)
(* was written with success, and the value is 20 + opt_length + pkt_length *)
(* (not the padded frame length); it returns 0 only when no IP frame was   *)
(* written and an ARP request was attempted; it returns -1 otherwise.  For *)
(* every datagram that passes the length check exactly one of the three    *)
(* is the case.                                                            *)
(***************************************************************************)
C27_IpFrames(e) == SelectSeq(e.frames, LAMBDA f : f.frame.eh.type = ENET_TYPE_IP)

C27_ArpRequests(e) ==
    SelectSeq(e.frames, LAMBDA f : /\ f.frame.eh.type = ENET_TYPE_ARP
                                   /\ f.frame.arp.op_code = ARP_OP_REQ)

C27_Sent(e) ==
    /\ e.rc > 0
    /\ Len(C27_IpFrames(e)) = 1
    /\ C27_IpFrames(e)[1].ok
    /\ e.rc = SIZEOF_IP_HDR + e.before.opt_length + e.before.pkt_length

C27_Asked(e) ==
    /\ e.rc = 0
    /\ C27_IpFrames(e) = << >>
    /\ Len(C27_ArpRequests(e)) = 1

C27_Failed(e) ==
    /\ e.rc = -1
    /\ \A k \in 1..Len(C27_IpFrames(e)) : ~C27_IpFrames(e)[k].ok

C27_PassedLengthCheck(e) == "bad_length" \notin e.counted

C27_ThreeResultsWithin ==
    \A i \in 1..Len(calls) :
       (SIZEOF_ENET_HDR + SIZEOF_IP_HDR + calls[i].before.opt_length
           + calls[i].before.pkt_length <= ETH_MAX_LEN) =>
          \/ C27_Sent(calls[i])
          \/ C27_Asked(calls[i])
          \/ C27_Failed(calls[i])

(***************************************************************************)
(* C28.  Every ARP frame handed to the transport carries the interface's   *)
(* hardware and IP address as its source, and the fields of arp_enet_pkt   *)
(* that vary are all rewritten for it: a request goes to the broadcast     *)
(* address (Ethernet destination and target hardware address), with opcode *)
(* request, for the address being resolved; a reply goes to the requester  *)
(* (Ethernet destination and target hardware address), with opcode reply   *)
(* and the requester's IP address.  Nothing of the packet sent before      *)
(* shows.                                                                  *)
(***************************************************************************)
C28_FromUs(f) ==
    /\ f.eh.type = ENET_TYPE_ARP
    /\ f.eh.source = x.macaddr
    /\ f.arp.src_ether = x.macaddr
    /\ f.arp.src_ip = x.port.ip_addr
    /\ f.arp.hardware_space = ARP_HARD_ETHER
    /\ f.arp.protocol_space = ENET_TYPE_IP
    /\ f.arp.hardware_len = ETH_ALEN
    /\ f.arp.protocol_len = 4

C28_Request(f) ==
    /\ f.arp.op_code = ARP_OP_REQ
    /\ f.eh.destination = BROADCAST_ADDR
    /\ f.arp.dest_ether = BROADCAST_ADDR

C28_Reply(f, arp) ==
    /\ f.arp.op_code = ARP_OP_ANS
    /\ f.eh.destination = arp.src_ether
    /\ f.arp.dest_ether = arp.src_ether
    /\ f.arp.dest_ip = arp.src_ip

\* the ARP frames among the frames written, with their places
C28_ArpPlaces(w) == {k \in 1..Len(w) : w[k].frame.eh.type = ENET_TYPE_ARP}

C28_Rewritten ==
    /\ \A k \in C28_ArpPlaces(wire) :
          /\ C28_FromUs(wire[k].frame)
          /\ \/ C28_Request(wire[k].frame)
             \/ /\ last.op = "receive_frame"
                /\ last.frame.eh.type = ENET_TYPE_ARP
                /\ last.frame.arp.op_code = ARP_OP_REQ
                /\ k = 1
                /\ C28_Reply(wire[k].frame, last.frame.arp)
    /\ \A i \in 1..Len(calls) :
          \A k \in C28_ArpPlaces(calls[i].frames) :
             /\ C28_Request(calls[i].frames[k].frame)
             /\ calls[i].frames[k].frame.arp.dest_ip = next_hop(x.port, calls[i].before)

\* process_arp answered a request while a datagram was waiting, so the reply
\* followed the request sent for that datagram, and then asked again for the
\* datagram's next hop, so a request followed the reply
C28_Witness ==
    /\ last.op = "receive_frame"
    /\ last.arpwait # << >>
    /\ Len(wire) >= 2
    /\ wire[1].frame.eh.type = ENET_TYPE_ARP
    /\ wire[1].frame.arp.op_code = ARP_OP_ANS
    /\ wire[2].frame.eh.type = ENET_TYPE_ARP
    /\ wire[2].frame.arp.op_code = ARP_OP_REQ
    /\ wire[2].frame.arp.dest_ip # wire[1].frame.arp.dest_ip

(***************************************************************************)
(* C29.  process_arp writes no ARP reply for a valid ARP reply, nor for a  *)
(* valid request for an address other than the interface's.  It counts     *)
(* requests_received and answers_received only for packets for the         *)
(* interface's address.  For a reply nothing happens but the cache update, *)
(* the statistics and the drain of arpwait.                                *)
(***************************************************************************)
C29_ForUs == last.frame.arp.dest_ip = x.port.ip_addr

C29_Counted(counter) == x.stats.arp[counter] - last.stats.arp[counter]

\* the frames the drain's calls of process_output wrote, one call after the other
RECURSIVE C29_DrainFrames(_)
C29_DrainFrames(i) ==
    IF i > Len(calls) THEN << >> ELSE calls[i].frames \o C29_DrainFrames(i + 1)

C29_NoReply ==
    HandledArp =>
       /\ (last.frame.arp.op_code = ARP_OP_ANS \/ ~C29_ForUs) =>
             ArpFramesOf(wire, ARP_OP_ANS) = << >>
       /\ C29_Counted("requests_received") =
             (IF last.frame.arp.op_code = ARP_OP_REQ /\ C29_ForUs THEN 1 ELSE 0)
       /\ C29_Counted("answers_received") =
             (IF last.frame.arp.op_code = ARP_OP_ANS /\ C29_ForUs THEN 1 ELSE 0)
       /\ last.frame.arp.op_code = ARP_OP_ANS =>
             /\ arp_table = arp_update(last.arp_table, last.frame.arp)
             /\ wire = C29_DrainFrames(1)
             /\ x.port.receive = last.receive
             /\ last.rc = 0

\* a request for another host's address arrived while a datagram was waiting
C29_Witness ==
    /\ HandledArp
    /\ last.frame.arp.op_code = ARP_OP_REQ
    /\ ~C29_ForUs
    /\ last.arpwait # << >>
    /\ wire # << >>

\* a reply for another host's address arrived while a datagram was waiting
C29_WitnessReply ==
    /\ HandledArp
    /\ last.frame.arp.op_code = ARP_OP_ANS
    /\ ~C29_ForUs
    /\ last.arpwait # << >>
    /\ wire # << >>

(***************************************************************************)
(* C30.  While process_arp handles one packet, the ARP requests it writes  *)
(* are as many as the unexpired datagrams on arpwait whose next hop the    *)
(* cache still misses: one request per such datagram, so several equal     *)
(* requests when several datagrams wait for the same next hop.             *)
(***************************************************************************)
\* the places on arpwait, as process_arp found it, of the datagrams with time
\* to live left whose next hop is not in the cache after the packet's update
C30_StillMissing ==
    {i \in 1..Len(last.arpwait) :
        /\ ~last.heap[last.arpwait[i]].expired
        /\ last.arpwait[i] \notin last.timed_out
        /\ arp_cache(arp_table, next_hop(x.port, last.heap[last.arpwait[i]])) = NULL}

C30_OneRequestEach ==
    HandledArp =>
       /\ Len(ArpFramesOf(wire, ARP_OP_REQ)) = Cardinality(C30_StillMissing)
       /\ \A i \in 1..Len(calls) :
             Len(ArpFramesOf(calls[i].frames, ARP_OP_REQ)) =
                (IF \E k \in C30_StillMissing : last.arpwait[k] = calls[i].dgram
                 THEN 1 ELSE 0)

\* three datagrams were waiting: one had expired, the two others wait for the
\* same next hop, and two equal requests were written
C30_Witness ==
    /\ HandledArp
    /\ Len(last.arpwait) = 3
    /\ Cardinality(C30_StillMissing) = 2
    /\ Len(ArpFramesOf(wire, ARP_OP_REQ)) = 2
    /\ ArpFramesOf(wire, ARP_OP_REQ)[1].frame = ArpFramesOf(wire, ARP_OP_REQ)[2].frame

(***************************************************************************)
(* C31.  For a frame of type IP whose Ethernet destination is the          *)
(* broadcast address receive_dgrams counts receive.good_packets and        *)
(* process.broadcast_ip_packets, calls neither process_ip nor process_arp, *)
(* writes nothing, and leaves the receive queue, the ARP cache and arpwait *)
(* as they were.                                                           *)
(***************************************************************************)
C31_BroadcastIp ==
    /\ last.op = "receive_frame"
    /\ last.frame.eh.type = ENET_TYPE_IP
    /\ last.frame.eh.destination = BROADCAST_ADDR

C31_CountedOnly ==
    C31_BroadcastIp =>
       /\ x.stats.receive.good_packets = last.stats.receive.good_packets + 1
       /\ x.stats.process.broadcast_ip_packets =
             last.stats.process.broadcast_ip_packets + 1
       \* neither process_ip nor process_arp ran
       /\ x.stats.process.normal_ip_packets = last.stats.process.normal_ip_packets
       /\ x.stats.process.bad_ip_packets = last.stats.process.bad_ip_packets
       /\ x.stats.process.arp_packets = last.stats.process.arp_packets
       /\ x.stats.process.bad_arp_packets = last.stats.process.bad_arp_packets
       /\ x.stats.arp = last.stats.arp
       /\ \A g \in DgramIds : /\ heap[g].alloc = last.heap[g].alloc
                               /\ heap[g].frees = last.heap[g].frees
       \* nothing written
       /\ wire = << >>
       /\ calls = << >>
       /\ x.stats.write = last.stats.write
       /\ x.stats.send = last.stats.send
       /\ x.port.stat_sd_data = last.stat_sd_data
       \* queues and cache
       /\ x.port.receive = last.receive
       /\ arp_table = last.arp_table
       /\ x.arpwait = last.arpwait

\* a broadcast IP frame arrived while a datagram was waiting for its next hop
C31_Witness ==
    /\ C31_BroadcastIp
    /\ last.arpwait # << >>

\* a broadcast IP frame arrived while a sender was in the cache
C31_WitnessCached ==
    /\ C31_BroadcastIp
    /\ arp_count(last.arp_table) > 0

(***************************************************************************)
(* C32.  Every IP frame process_output hands to the transport is           *)
(* max(60, 14 + 20 + opt_length + pkt_length) bytes long; when that sum is *)
(* below 60, every byte from the end of the data up to byte 60 is zero,    *)
(* whatever an earlier, longer frame left in the output packet.            *)
(***************************************************************************)
\* the length of the frame as the lengths of the datagram give it
C32_Natural(f) == SIZEOF_ENET_HDR + SIZEOF_IP_HDR + f.opt_length + f.pkt_length

C32_Padded(f) ==
    /\ f.length = (IF C32_Natural(f) < ETH_MIN_LEN THEN ETH_MIN_LEN ELSE C32_Natural(f))
    /\ BLen(f.ed) = f.length - SIZEOF_ENET_HDR - SIZEOF_IP_HDR
    /\ C32_Natural(f) < ETH_MIN_LEN =>
          Drop(f.ed, f.opt_length + f.pkt_length)
             = Run("zero", ETH_MIN_LEN - C32_Natural(f))

C32_IpPlaces == {k \in 1..Len(wire) : wire[k].frame.eh.type = ENET_TYPE_IP}

C32_MinLengthWithin ==
    \A k \in C32_IpPlaces :
       C32_Natural(wire[k].frame) <= ETH_MAX_LEN => C32_Padded(wire[k].frame)

\* a frame of ETH_MAX_LEN bytes was written, and after it a frame of headers
\* only, padded with 26 bytes
C32_ShortAfterLong ==
    \E k \in C32_IpPlaces :
       /\ k + 1 \in C32_IpPlaces
       /\ wire[k].frame.length = ETH_MAX_LEN
       /\ C32_Natural(wire[k + 1].frame) < ETH_MIN_LEN
       /\ wire[k + 1].frame.length = ETH_MIN_LEN

(***************************************************************************)
(* C33.  One invocation of receive_dgrams on an active port processes the  *)
(* frames in the order it reads them and stops at the first read that      *)
(* returns no data (0) or an error (negative): it makes one read more than *)
(* it processes frames, so read.total_packets grows by frames + 1; a       *)
(* failed read counts in read.failed and leaves caches and queues as they  *)
(* were.                                                                   *)
(***************************************************************************)
\* while the loop runs: each frame read so far has been processed, in its turn
C33_InTurn ==
    pc.loc = "receive" =>
       /\ last.op = "receive_frame"
       /\ pc.frames >= 1
       /\ x.stats.read.total_packets = pc.read0 + pc.frames
       /\ x.stats.receive.total_packets = last.stats.receive.total_packets + 1
       /\ x.stats.read.total_packets = last.stats.read.total_packets + 1

\* the read that ends the loop
C33_Stopped ==
    last.op = "receive_end" =>
       /\ pc.loc = "idle"
       /\ x.stats.read.total_packets = last.read0 + last.frames + 1
       /\ x.stats.read.failed = last.stats.read.failed + (IF last.rc < 0 THEN 1 ELSE 0)
       /\ x.stats.receive = last.stats.receive
       /\ x.stats.process = last.stats.process
       /\ arp_table = last.arp_table
       /\ heap = last.heap
       /\ x.port.send = last.send
       /\ x.port.receive = last.receive
       /\ x.arpwait = last.arpwait

C33_OneMoreRead == C33_InTurn /\ C33_Stopped

\* an invocation processed two frames and its third read failed, with a
\* sender in the cache
C33_Witness ==
    /\ last.op = "receive_end"
    /\ last.frames = 2
    /\ last.rc < 0
    /\ arp_count(arp_table) > 0


(***************************************************************************)
(* C34: send_dgrams and receive_dgrams called for a port that is not       *)
(* active, or whose magic is not the driver's, change nothing: no read and *)
(* no write reaches the transport, and no counter, queue, datagram or      *)
(* cache entry changes.  send_dgrams called with an empty send queue       *)
(* changes nothing either.                                                 *)
(***************************************************************************)
C34_NothingChanges ==
    [][ ( \/ /\ last'.op = "send_dgrams"
             /\ \/ last'.magic # EXTPORT_MAGIC
                \/ ~x.port.active
                \/ x.port.send = << >>
          \/ /\ last'.op = "receive_dgrams"
             /\ \/ last'.magic # EXTPORT_MAGIC
                \/ ~x.port.active )
        => /\ x' = x
           /\ arp_table' = arp_table
           /\ arp_enet_pkt' = arp_enet_pkt
           /\ heap' = heap
           /\ wire' = << >>
           /\ reads' = reads ]_vars

\* send_dgrams was called for a port of another driver while the driver's
\* own port was active with a datagram queued and a datagram waiting
C34_Witness ==
    /\ last.op = "send_dgrams"
    /\ last.magic # EXTPORT_MAGIC
    /\ x.port.active
    /\ x.port.send # << >>
    /\ x.arpwait # << >>

\* receive_dgrams was called for the driver's own port, not active, with a
\* datagram still waiting and reads counted
C34_WitnessInactive ==
    /\ last.op = "receive_dgrams"
    /\ last.magic = EXTPORT_MAGIC
    /\ ~x.port.active
    /\ x.arpwait # << >>
    /\ x.stats.read.total_packets > 0

\* send_dgrams was called for the driver's own active port with an empty
\* send queue and a datagram waiting
C34_WitnessEmpty ==
    /\ last.op = "send_dgrams"
    /\ last.magic = EXTPORT_MAGIC
    /\ x.port.active
    /\ last.send = << >>
    /\ x.arpwait # << >>

=============================================================================
